---- MODULE Spec2Model ----
(***************************************************************************)
(* Leader-follower detection engine of SectorLeaderFollowerAnalyzer        *)
(* (src/sector_leader_follower_analyzer.py; the same engine is copied in   *)
(* src/csv_based_leader_follower_analyzer.py).                             *)
(*                                                                         *)
(* The analyzer object is a state machine: data (the DataFrame), stocks,   *)
(* results, and the position of the caller in the pipeline                 *)
(* load_data -> calculate_price_movements -> identify_leader_signals ->    *)
(* analyze_leader_follower_relationships -> calculate_success_rates, and   *)
(* of the caller in run_complete_analysis.                                 *)
(*                                                                         *)
(* Datetimes are minutes since midnight of day 0.  Fractions (returns,     *)
(* moving averages, gains, multipliers) are exact pairs <<num, den>> with  *)
(* den > 0 and are compared by cross-multiplication.                       *)
(* The prices, flows and thresholds of the input sets keep every           *)
(* comparison of the code away from a floating-point rounding boundary     *)
(* (a 1% return against min_price_change = 0.01 is such a boundary).       *)
(***************************************************************************)
EXTENDS Integers, Sequences, FiniteSets, TLC

\* pc, data, stocks, results: the analyzer and the caller's position;
\* args: the arguments passed so far; pairs_df: the frame the matcher returned;
\* csv_file: the rows behind the path the analyzer was built on (<<>> when
\* load_data draws the file itself); engine: the class of the analyzer;
\* stats: the value calculate_success_rates returned; report: the value
\* generate_comprehensive_report returned; ret: the value
\* run_complete_analysis returned; saved: leader_follower_pairs_detailed.csv
VARIABLES pc, data, stocks, results, args, pairs_df,
          csv_file, engine, stats, report, ret, saved

\* SectorAnalyzer: self.combined_data
VARIABLES combined_data

\* generate_date_range: its two arguments (YYYYMM) and its loop variables;
\* periods is the list it builds
VARIABLES start_period, end_period, current_year, current_month, periods

\* GetSectorData.main: the sectors of --sector, processed_stocks, the
\* position of the loops (at), the files of the local folders and the
\* number of times each download function was invoked for a stock and a
\* period (calls)
VARIABLES sectors, processed_stocks, at, local_files, calls

\* the analyzer of the leader-follower engine, without the caller's position
analyzerVars == <<data, stocks, results, args, pairs_df,
                  csv_file, engine, stats, report, ret, saved>>

dateRangeVars == <<start_period, end_period, current_year, current_month, periods>>

mainVars == <<sectors, processed_stocks, at, local_files, calls>>

\* what the leader-follower engine never touches
otherVars == <<combined_data, dateRangeVars, mainVars>>

vars == <<pc, analyzerVars, otherVars>>

\* no analyzer of the leader-follower engine has been built
NoAnalyzer ==
    /\ data = <<>>
    /\ stocks = <<>>
    /\ results = <<>>
    /\ args = <<>>
    /\ pairs_df = <<>>
    /\ csv_file = <<>>
    /\ engine = "sector"
    /\ stats = <<>>
    /\ report = <<>>
    /\ ret = <<>>
    /\ saved = <<>>

\* no SectorAnalyzer has loaded data
NoCombinedData == combined_data = <<>>

\* generate_date_range has not been called
NoDateRange ==
    /\ start_period = 0
    /\ end_period = 0
    /\ current_year = 0
    /\ current_month = 0
    /\ periods = <<>>

\* GetSectorData.main is not running
NoMain ==
    /\ sectors = <<>>
    /\ processed_stocks = {}
    /\ at = <<>>
    /\ local_files = {}
    /\ calls = <<>>

(***************************************************************************)
(* Bounds of the input files.                                              *)
(***************************************************************************)
\* most bars one symbol has in a file of the varied ("rich") kind
MaxBars == 3
\* number of calendar years the periods of --start and --end are drawn from
MaxYears == 2
\* bars of the long series of a file of the long kind: more than the window
MaxLong == 32

\* rolling(window=30, min_periods=1)
Window == 30
\* the literal 1.5 of enhanced_leader_signal, as the fraction 3/2
EnhancedNum == 3
EnhancedDen == 2

MinutesPerDay == 1440

Symbols == {3037, 8046}

\* 13:30 of day 0, then 09:01, 09:02, 09:03 of day 1
Slots == <<810, 1981, 1982, 1983>>
\* 09:00 of day 1: before the trading session
PreOpen == MinutesPerDay + 9 * 60

Closes == {100, 101, 102}

\* <<large_buy, xlarge_buy, large_sell, xlarge_sell>> of one minute:
\* a quiet minute, a buying burst, a burst that is sold into
Quiet == <<100000, 0, 0, 0>>
Burst == <<4000000, 4000000, 1000000, 0>>
Sold == <<4000000, 4000000, 5000000, 4000000>>

\* the flows of the bars of a varied series
Flows == { Quiet, Burst }

\* pct_change of a first row: no value; kept as the fraction 0/0
NaN == <<0, 0>>

(***************************************************************************)
(* Exact fractions.                                                        *)
(***************************************************************************)
\* a > b for fractions with positive denominators
FracGT(a, b) == a[1] * b[2] > b[1] * a[2]
\* a >= b for fractions with positive denominators
FracGE(a, b) == a[1] * b[2] >= b[1] * a[2]

(***************************************************************************)
(* Sequence helpers (pandas primitives).                                   *)
(***************************************************************************)
RECURSIVE SeqMax(_)
SeqMax(s) == IF Len(s) = 1 THEN s[1]
             ELSE LET m == SeqMax(Tail(s)) IN IF s[1] >= m THEN s[1] ELSE m

RECURSIVE SeqMin(_)
SeqMin(s) == IF Len(s) = 1 THEN s[1]
             ELSE LET m == SeqMin(Tail(s)) IN IF s[1] <= m THEN s[1] ELSE m

RECURSIVE SeqSum(_)
SeqSum(s) == IF s = <<>> THEN 0 ELSE s[1] + SeqSum(Tail(s))

\* the rows of s at the positions where keep holds, in order (boolean mask)
RECURSIVE Mask(_, _)
Mask(s, keep) ==
    IF s = <<>> THEN <<>>
    ELSE (IF keep[1] THEN <<s[1]>> ELSE <<>>) \o Mask(Tail(s), Tail(keep))

\* the last n elements of s (all of s when it has fewer): a trailing window
LastN(s, n) == IF Len(s) <= n THEN s ELSE SubSeq(s, Len(s) - n + 1, Len(s))

Column(s, f) == [i \in 1..Len(s) |-> s[i][f]]

(***************************************************************************)
(* load_data                                                               *)
(***************************************************************************)
Hour(t) == (t % MinutesPerDay) \div 60
Minute(t) == t % 60
Date(t) == t \div MinutesPerDay

\* Keep only trading hours (09:01 to 13:30)
TradingMask(t) ==
    \/ (Hour(t) = 9 /\ Minute(t) >= 1)
    \/ (Hour(t) >= 10 /\ Hour(t) <= 12)
    \/ (Hour(t) = 13 /\ Minute(t) <= 30)

\* sort key of sort_values(['symbol', 'datetime'])
RowLE(a, b) ==
    \/ a.symbol < b.symbol
    \/ (a.symbol = b.symbol /\ a.datetime <= b.datetime)

\* stable insertion of row r into the sorted sequence s, after its equals
RECURSIVE InsertRow(_, _)
InsertRow(s, r) ==
    IF s = <<>> THEN <<r>>
    ELSE IF RowLE(s[1], r) THEN <<s[1]>> \o InsertRow(Tail(s), r)
    ELSE <<r>> \o s

RECURSIVE SortValues(_)
SortValues(s) ==
    IF s = <<>> THEN <<>>
    ELSE InsertRow(SortValues(SubSeq(s, 1, Len(s) - 1)), s[Len(s)])

\* sorted(self.data['symbol'].unique())
RECURSIVE SortedSet(_)
SortedSet(S) ==
    IF S = {} THEN <<>>
    ELSE LET m == CHOOSE x \in S : \A y \in S : x <= y
         IN  <<m>> \o SortedSet(S \ {m})

WithFlowTotals(r) ==
    [large_net   |-> (r.large_buy + r.xlarge_buy) - (r.large_sell + r.xlarge_sell),
     large_total |-> r.large_buy + r.xlarge_buy] @@ r

\* required_columns, as far as the frame of this model holds them
RequiredColumns ==
    {"symbol", "close_price", "large_buy", "xlarge_buy", "large_sell", "xlarge_sell"}

\* if col not in self.data.columns: self.data[col] = 0.0
WithRequiredColumns(csv) ==
    LET missing == {col \in RequiredColumns :
                       \A i \in 1..Len(csv) : col \notin DOMAIN csv[i]}
    IN  [i \in 1..Len(csv) |-> [col \in missing |-> 0] @@ csv[i]]

\* the DataFrame load_data leaves in self.data for the file csv
LoadedFrame(csv) ==
    LET full == WithRequiredColumns(csv)
        kept == Mask(full, [i \in 1..Len(full) |-> TradingMask(full[i].datetime)])
    IN  SortValues([i \in 1..Len(kept) |-> WithFlowTotals(kept[i])])

(***************************************************************************)
(* The files read_csv may find.  One symbol has a varied series of at most *)
(* MaxBars bars on the slots, the other a fixed series; the rows come in   *)
(* ascending or in descending order.                                       *)
(***************************************************************************)
Bar(s, t, c, f) ==
    [symbol |-> s, datetime |-> t, close_price |-> c,
     volume |-> (f[1] + f[2] + f[3] + f[4]) \div 100000,
     large_buy |-> f[1], xlarge_buy |-> f[2], large_sell |-> f[3], xlarge_sell |-> f[4]]

\* every series of symbol s: k bars on increasing slots, k <= MaxBars
RECURSIVE SeriesFrom(_, _, _)
SeriesFrom(s, first, k) ==
    IF k = 0 \/ first > Len(Slots) THEN {<<>>}
    ELSE {<<>>} \cup
         UNION { { <<Bar(s, Slots[j], c, f)>> \o rest :
                     c \in Closes, f \in Flows, rest \in SeriesFrom(s, j + 1, k - 1) } :
                 j \in first..Len(Slots) }

RichSeries(s) == SeriesFrom(s, 1, MaxBars)

\* the fixed series of the other symbol: a quiet bar at the close of day 0,
\* a row before the session opens, a burst on a rising price at 09:01 and
\* a burst that is sold into, on a still higher price, at 09:03
PlainSeries(s) ==
    <<Bar(s, Slots[1], 100, Quiet), Bar(s, PreOpen, 102, Burst),
      Bar(s, Slots[2], 101, Burst), Bar(s, Slots[4], 103, Sold)>>

RECURSIVE Reverse(_)
Reverse(s) == IF s = <<>> THEN <<>> ELSE Reverse(Tail(s)) \o <<s[1]>>

CsvFiles ==
    LET a == CHOOSE x \in Symbols : \A y \in Symbols : x <= y
        b == CHOOSE x \in Symbols : x # a
        asc == { x \o PlainSeries(b) : x \in RichSeries(a) } \cup
               { PlainSeries(a) \o y : y \in RichSeries(b) }
    IN  asc \cup { Reverse(f) : f \in asc }

(***************************************************************************)
(* The files of a sector of three stocks.  One symbol has a varied series, *)
(* the other two their fixed series; a few files are defective.            *)
(***************************************************************************)
SectorSymbols == <<3037, 3189, 8046>>

\* a burst larger than Burst
Big == <<10000000, 10000000, 0, 0>>

\* the same bars with closes two ticks apart: 100, 102, 104
Spread(series) ==
    [i \in 1..Len(series) |-> [series[i] EXCEPT !.close_price = 2 * @ - 100]]

\* 3037 leads twice with different amounts, 3189 leads once, 8046 rises last
FixedSeries(s) ==
    IF s = SectorSymbols[1]
    THEN <<Bar(s, Slots[1], 100, Quiet), Bar(s, Slots[2], 102, Burst),
           Bar(s, Slots[3], 104, Big)>>
    ELSE IF s = SectorSymbols[2]
    THEN <<Bar(s, Slots[1], 100, Quiet), Bar(s, Slots[3], 102, Burst)>>
    ELSE <<Bar(s, Slots[1], 100, Quiet), Bar(s, Slots[4], 102, Quiet)>>

\* the file in which symbol SectorSymbols[k] has the series x
SectorFile(k, x) ==
    (IF k = 1 THEN x ELSE FixedSeries(SectorSymbols[1])) \o
    (IF k = 2 THEN x ELSE FixedSeries(SectorSymbols[2])) \o
    (IF k = 3 THEN x ELSE FixedSeries(SectorSymbols[3]))

SoundSectorFiles ==
    UNION { { SectorFile(k, Spread(x)) : x \in RichSeries(SectorSymbols[k]) } :
            k \in 1..Len(SectorSymbols) }

\* the file without the column col
WithoutColumn(csv, col) ==
    [i \in 1..Len(csv) |-> [c \in DOMAIN csv[i] \ {col} |-> csv[i][c]]]

\* the file with its first row written twice
WithDuplicate(csv) == <<csv[1]>> \o csv

\* defects of the files whose varied series has at most one bar
DefectiveSectorFiles ==
    LET small == UNION { { SectorFile(k, Spread(x)) :
                               x \in SeriesFrom(SectorSymbols[k], 1, 1) } :
                         k \in 1..Len(SectorSymbols) }
    IN  { Reverse(f) : f \in small } \cup
        { WithoutColumn(f, "large_buy") : f \in small } \cup
        { WithDuplicate(f) : f \in small }

SectorFiles == SoundSectorFiles \cup DefectiveSectorFiles

\* a series of MaxLong consecutive minutes from 09:01 of day 1: quiet bars at
\* 100, then one burst at bar b on a price that rises to 102 and stays
LongSeries(s, b) ==
    [j \in 1..MaxLong |->
        Bar(s, Slots[2] + j - 1, IF j >= b THEN 102 ELSE 100,
            IF j = b THEN Burst ELSE Quiet)]

LongFiles ==
    { LongSeries(SectorSymbols[1], b) \o FixedSeries(SectorSymbols[3]) :
        b \in 1..MaxLong }

(***************************************************************************)
(* calculate_price_movements                                               *)
(***************************************************************************)
\* a selection that forgets the symbol filter
StockData_all(d, symbol) == d

\* self.data[self.data['symbol'] == symbol]
StockData(d, symbol) == Mask(d, [i \in 1..Len(d) |-> d[i].symbol = symbol])

\* close_price.pct_change(n) at position j of one symbol's rows
PctChange(sd, j, n) ==
    IF j <= n THEN NaN
    ELSE <<sd[j].close_price - sd[j - n].close_price, sd[j - n].close_price>>

\* groupby(datetime.dt.date)['close_price'].transform('max'): the maximum
\* over every row of the group, the rows after j included
DailyHigh(sd, j) ==
    SeqMax(Column(Mask(sd, [i \in 1..Len(sd) |->
                               Date(sd[i].datetime) = Date(sd[j].datetime)]),
                  "close_price"))

DailyLow(sd, j) ==
    SeqMin(Column(Mask(sd, [i \in 1..Len(sd) |->
                               Date(sd[i].datetime) = Date(sd[j].datetime)]),
                  "close_price"))

\* close_price.rolling(window=30, min_periods=1).max()
RollingMax(sd, j) == SeqMax(LastN(Column(SubSeq(sd, 1, j), "close_price"), Window))

\* a moving average that pads the window with zeros
RollingMean_padded(sd, j) ==
    LET w == LastN(Column(SubSeq(sd, 1, j), "large_total"), Window)
    IN  <<SeqSum(w), Window>>

\* large_total.rolling(window=30, min_periods=1).mean(), as <<sum, count>>
RollingMean(sd, j) ==
    LET w == LastN(Column(SubSeq(sd, 1, j), "large_total"), Window)
    IN  <<SeqSum(w), Len(w)>>

\* the derived columns of row j of one symbol's rows
Indicators(sd, j) ==
    LET dh == DailyHigh(sd, j)
        dl == DailyLow(sd, j)
        rm == RollingMax(sd, j)
    IN  [return_1min       |-> PctChange(sd, j, 1),
         return_5min       |-> PctChange(sd, j, 5),
         daily_high        |-> dh,
         daily_low         |-> dl,
         rolling_max_30min |-> rm,
         is_daily_high     |-> sd[j].close_price >= dh,
         is_daily_low      |-> sd[j].close_price <= dl,
         is_30min_high     |-> sd[j].close_price >= rm,
         large_total_ma30  |-> RollingMean(sd, j)]

\* position of row i of the frame among the rows of its own symbol
PosInStock(d, i) == Cardinality({k \in 1..i : d[k].symbol = d[i].symbol})

\* a loop that ends with dropna(): the rows without a return are dropped
WithIndicators_dropna(d, symbols) ==
    LET w == [i \in 1..Len(d) |->
                 Indicators(StockData(d, d[i].symbol), PosInStock(d, i)) @@ d[i]]
    IN  Mask(w, [i \in 1..Len(w) |-> w[i].return_1min # NaN])

\* the frame after the loop over self.stocks: every row of a symbol of
\* symbols gets its derived columns, computed from that symbol's rows only
WithIndicators(d, symbols) ==
    [i \in 1..Len(d) |->
        IF \E k \in 1..Len(symbols) : symbols[k] = d[i].symbol
        THEN Indicators(StockData(d, d[i].symbol), PosInStock(d, i)) @@ d[i]
        ELSE d[i]]

(***************************************************************************)
(* identify_leader_signals                                                 *)
(***************************************************************************)
\* large_total > large_total_ma30 * multiplier
AboveBaseline(r, multiplier) ==
    r.large_total * r.large_total_ma30[2] * multiplier[2]
        > r.large_total_ma30[1] * multiplier[1]

\* a comparison after fillna(0)
ReturnAbove_fillna(r, min_price_change) ==
    FracGT(IF r.return_1min = NaN THEN <<0, 1>> ELSE r.return_1min, min_price_change)

\* return_1min > min_price_change; a comparison with NaN is False
ReturnAbove(r, min_price_change) ==
    /\ r.return_1min # NaN
    /\ FracGT(r.return_1min, min_price_change)

\* a predicate without the price-change conjunct
LeaderSignal_noreturn(r, money_multiplier, min_amount, min_price_change) ==
    /\ AboveBaseline(r, money_multiplier)
    /\ r.large_total > min_amount
    /\ r.large_net > 0
    /\ (r.is_daily_high \/ r.is_30min_high)

LeaderSignal(r, money_multiplier, min_amount, min_price_change) ==
    /\ AboveBaseline(r, money_multiplier)
    /\ r.large_total > min_amount
    /\ r.large_net > 0
    /\ ReturnAbove(r, min_price_change)
    /\ (r.is_daily_high \/ r.is_30min_high)

\* an enhanced threshold that forgets the factor 1.5
EnhancedMultiplier_plain(money_multiplier) == money_multiplier

\* money_multiplier * 1.5
EnhancedMultiplier(money_multiplier) ==
    <<money_multiplier[1] * EnhancedNum, money_multiplier[2] * EnhancedDen>>

\* an enhanced flag that does not start from the leader flag
EnhancedLeaderSignal_alone(r, leader_signal, money_multiplier) ==
    /\ AboveBaseline(r, EnhancedMultiplier(money_multiplier))
    /\ r.is_daily_high

EnhancedLeaderSignal(r, leader_signal, money_multiplier) ==
    /\ leader_signal
    /\ AboveBaseline(r, EnhancedMultiplier(money_multiplier))
    /\ r.is_daily_high

WithSignals(d, money_multiplier, min_amount, min_price_change) ==
    [i \in 1..Len(d) |->
        LET ls == LeaderSignal(d[i], money_multiplier, min_amount, min_price_change)
        IN  [leader_signal          |-> ls,
             enhanced_leader_signal |->
                 EnhancedLeaderSignal(d[i], ls, money_multiplier)] @@ d[i]]

\* self.data[self.data['leader_signal']]
SignalRows(d) == Mask(d, [i \in 1..Len(d) |-> d[i].leader_signal])

(***************************************************************************)
(* analyze_leader_follower_relationships                                   *)
(***************************************************************************)
\* (close_price - base_price) / base_price * 100
GainPct(close_price, base_price) == <<(close_price - base_price) * 100, base_price>>

\* a base price taken from the first row of the history
BasePrice_first(follower_base_data) == follower_base_data[1].close_price

\* follower_base_data.iloc[-1]['close_price']
BasePrice(follower_base_data) ==
    follower_base_data[Len(follower_base_data)].close_price

\* a window without its upper end
InWindow_open(datetime, window_start, window_end) == datetime > window_start

\* (datetime > window_start) & (datetime <= window_end)
InWindow(datetime, window_start, window_end) ==
    datetime > window_start /\ datetime <= window_end

\* a floor that must be exceeded
SignificantGain_strict(gain_pct, min_gain) == FracGT(gain_pct, min_gain)

\* gain_pct >= min_gain
SignificantGain(gain_pct, min_gain) == FracGE(gain_pct, min_gain)

\* a matcher that takes the last crossing of the window
FirstGain_last(significant_gains) == significant_gains[Len(significant_gains)]

\* significant_gains.iloc[0]
FirstGain(significant_gains) == significant_gains[1]

\* (first_gain['datetime'] - signal_time).total_seconds() / 60
TimeLag(follower_time, signal_time) == follower_time - signal_time

\* a matcher that takes the leader for one of its own followers
SameSymbol_never(follower_symbol, leader_symbol) == FALSE

\* if follower_symbol == leader_symbol: continue
SameSymbol(follower_symbol, leader_symbol) == follower_symbol = leader_symbol

\* the body of the inner loop: the pair of one signal and one follower
\* symbol as a sequence of length 0 or 1
FollowerPair(d, signal, follower_symbol, max_lag_minutes, min_gain) ==
    LET signal_time == signal.datetime
        window_start == signal_time
        window_end == signal_time + max_lag_minutes
        follower_base_data ==
            Mask(d, [i \in 1..Len(d) |->
                        d[i].symbol = follower_symbol /\ d[i].datetime <= signal_time])
        base_price == BasePrice(follower_base_data)
        follower_window_data ==
            Mask(d, [i \in 1..Len(d) |->
                        /\ d[i].symbol = follower_symbol
                        /\ InWindow(d[i].datetime, window_start, window_end)])
        significant_gains ==
            Mask(follower_window_data,
                 [i \in 1..Len(follower_window_data) |->
                     SignificantGain(
                         GainPct(follower_window_data[i].close_price, base_price),
                         min_gain)])
        first_gain == FirstGain(significant_gains)
    IN  IF SameSymbol(follower_symbol, signal.symbol) THEN <<>>
        ELSE IF follower_base_data = <<>> THEN <<>>
        ELSE IF follower_window_data = <<>> THEN <<>>
        ELSE IF significant_gains = <<>> THEN <<>>
        ELSE << [leader_symbol          |-> signal.symbol,
                 follower_symbol        |-> follower_symbol,
                 leader_time            |-> signal_time,
                 follower_time          |-> first_gain.datetime,
                 time_lag_minutes       |-> TimeLag(first_gain.datetime, signal_time),
                 leader_close           |-> signal.close_price,
                 leader_large_total     |-> signal.large_total,
                 leader_large_net       |-> signal.large_net,
                 leader_return_1min     |-> <<signal.return_1min[1] * 100,
                                              signal.return_1min[2]>>,
                 follower_base_price    |-> base_price,
                 follower_trigger_price |-> first_gain.close_price,
                 follower_gain_pct      |-> GainPct(first_gain.close_price, base_price),
                 is_enhanced_signal     |-> signal.enhanced_leader_signal] >>

\* for follower_symbol in self.stocks, from position k on
RECURSIVE PairsOfSignal(_, _, _, _, _, _)
PairsOfSignal(d, symbols, k, signal, max_lag_minutes, min_gain) ==
    IF k > Len(symbols) THEN <<>>
    ELSE FollowerPair(d, signal, symbols[k], max_lag_minutes, min_gain)
         \o PairsOfSignal(d, symbols, k + 1, signal, max_lag_minutes, min_gain)

\* a matcher that stops after the signal at position n
PairsOfSignals_first(d, symbols, signals, n, max_lag_minutes, min_gain) ==
    IF n > Len(signals) THEN <<>>
    ELSE PairsOfSignal(d, symbols, 1, signals[n], max_lag_minutes, min_gain)

\* for idx, signal in leader_signals.iterrows(), from position n on
RECURSIVE PairsOfSignals(_, _, _, _, _, _)
PairsOfSignals(d, symbols, signals, n, max_lag_minutes, min_gain) ==
    IF n > Len(signals) THEN <<>>
    ELSE PairsOfSignal(d, symbols, 1, signals[n], max_lag_minutes, min_gain)
         \o PairsOfSignals(d, symbols, signals, n + 1, max_lag_minutes, min_gain)

LeaderFollowerPairs(d, symbols, max_lag_minutes, min_gain) ==
    PairsOfSignals(d, symbols, SignalRows(d), 1, max_lag_minutes, min_gain)

(***************************************************************************)
(* calculate_success_rates                                                 *)
(***************************************************************************)
RECURSIVE GCD(_, _)
GCD(a, b) == IF b = 0 THEN a ELSE GCD(b, a % b)

\* a + b for fractions, in lowest terms
FracAdd(a, b) ==
    LET n == a[1] * b[2] + b[1] * a[2]
        d == a[2] * b[2]
        g == GCD(d, n)
    IN  <<n \div g, d \div g>>

RECURSIVE FracSum(_)
FracSum(s) == IF s = <<>> THEN <<0, 1>> ELSE FracAdd(s[1], FracSum(Tail(s)))

\* .mean() of a column of fractions
FracMean(s) == LET t == FracSum(s) IN <<t[1], t[2] * Len(s)>>

\* .mean() of a column of integers
Mean(s) == <<SeqSum(s), Len(s)>>

\* .round(2) of a fraction x >= 0: <<whole part, hundredths>>, halves to even
Round2(x) ==
    LET whole == x[1] \div x[2]
        rest == (x[1] % x[2]) * 100
        h == rest \div x[2]
        r == rest % x[2]
        up == 2 * r > x[2] \/ (2 * r = x[2] /\ h % 2 = 1)
        hundredths == IF up THEN h + 1 ELSE h
    IN  IF hundredths = 100 THEN <<whole + 1, 0>> ELSE <<whole, hundredths>>

\* the values of a column of integers in ascending order
RECURSIVE Ascending(_)
Ascending(s) ==
    IF s = <<>> THEN <<>>
    ELSE LET m == SeqMin(s)
             i == CHOOSE k \in 1..Len(s) : s[k] = m
         IN  <<m>> \o Ascending(SubSeq(s, 1, i - 1) \o SubSeq(s, i + 1, Len(s)))

\* .median() of a column of integers, as a fraction
Median(s) ==
    LET a == Ascending(s)
        n == Len(a)
    IN  IF n % 2 = 1 THEN <<a[(n + 1) \div 2], 1>>
        ELSE <<a[n \div 2] + a[n \div 2 + 1], 2>>

\* .max() of a column of fractions
RECURSIVE FracMax(_)
FracMax(s) == IF Len(s) = 1 THEN s[1]
              ELSE LET m == FracMax(Tail(s)) IN IF FracGE(s[1], m) THEN s[1] ELSE m

\* a grouping that puts every row in every group
LeaderGroup_all(pairs, leader_symbol) == pairs

\* the group of groupby('leader_symbol') with key leader_symbol
LeaderGroup(pairs, leader_symbol) ==
    Mask(pairs, [n \in 1..Len(pairs) |-> pairs[n].leader_symbol = leader_symbol])

FollowerGroup(pairs, follower_symbol) ==
    Mask(pairs, [n \in 1..Len(pairs) |-> pairs[n].follower_symbol = follower_symbol])

PairGroup(pairs, leader_symbol, follower_symbol) ==
    Mask(pairs, [n \in 1..Len(pairs) |->
                    /\ pairs[n].leader_symbol = leader_symbol
                    /\ pairs[n].follower_symbol = follower_symbol])

\* the row of leader_stats for one leader: count of follower_symbol and the
\* means of three columns over the rows of the group, rounded
LeaderStatsRow(pairs, leader_symbol) ==
    LET g == LeaderGroup(pairs, leader_symbol)
    IN  [leader_symbol      |-> leader_symbol,
         count              |-> Len(g),
         time_lag_minutes   |-> Round2(Mean(Column(g, "time_lag_minutes"))),
         follower_gain_pct  |-> Round2(FracMean(Column(g, "follower_gain_pct"))),
         leader_large_total |-> Round2(Mean(Column(g, "leader_large_total")))]

FollowerStatsRow(pairs, follower_symbol) ==
    LET g == FollowerGroup(pairs, follower_symbol)
    IN  [follower_symbol   |-> follower_symbol,
         count             |-> Len(g),
         time_lag_minutes  |-> Round2(Mean(Column(g, "time_lag_minutes"))),
         follower_gain_pct |-> Round2(FracMean(Column(g, "follower_gain_pct")))]

PairStatsRow(pairs, leader_symbol, follower_symbol) ==
    LET g == PairGroup(pairs, leader_symbol, follower_symbol)
    IN  [leader_symbol     |-> leader_symbol,
         follower_symbol   |-> follower_symbol,
         count             |-> Len(g),
         time_lag_minutes  |-> Round2(Mean(Column(g, "time_lag_minutes"))),
         follower_gain_pct |-> Round2(FracMean(Column(g, "follower_gain_pct")))]

\* sort_values(count column, ascending=False) with the default
\* kind='quicksort', which is not stable: every order of the rows with
\* non-increasing counts, rows of equal count in any order
RECURSIVE SortValuesDescending(_)
SortValuesDescending(rows) ==
    IF rows = {} THEN {<<>>}
    ELSE UNION { { <<r>> \o rest : rest \in SortValuesDescending(rows \ {r}) } :
                 r \in { x \in rows : \A y \in rows : x.count >= y.count } }

\* the values calculate_success_rates may return for a non-empty frame
SuccessRates(pairs) ==
    LET leaders == { pairs[n].leader_symbol : n \in 1..Len(pairs) }
        followers == { pairs[n].follower_symbol : n \in 1..Len(pairs) }
        keys == { <<pairs[n].leader_symbol, pairs[n].follower_symbol>> :
                     n \in 1..Len(pairs) }
        overall ==
            [total_pairs           |-> Len(pairs),
             average_time_lag      |-> Mean(Column(pairs, "time_lag_minutes")),
             median_time_lag       |-> Median(Column(pairs, "time_lag_minutes")),
             average_follower_gain |-> FracMean(Column(pairs, "follower_gain_pct")),
             max_follower_gain     |-> FracMax(Column(pairs, "follower_gain_pct"))]
    IN  { [leader_ranking |-> l, follower_ranking |-> f, best_pairs |-> b] @@ overall :
            l \in SortValuesDescending({ LeaderStatsRow(pairs, x) : x \in leaders }),
            f \in SortValuesDescending({ FollowerStatsRow(pairs, x) : x \in followers }),
            b \in SortValuesDescending({ PairStatsRow(pairs, k[1], k[2]) : k \in keys }) }

(***************************************************************************)
(* The copy of the engine in CsvBasedLeaderFollowerAnalyzer, method by      *)
(* method and loop by loop.                                                *)
(***************************************************************************)
\* the body of the loop of calculate_price_movements: stock_data with its
\* new columns
CsvStockData(d, symbol) ==
    LET stock_data == SelectSeq(d, LAMBDA r : r.symbol = symbol)
    IN  [j \in 1..Len(stock_data) |->
            [return_1min       |-> PctChange(stock_data, j, 1),
             return_5min       |-> PctChange(stock_data, j, 5),
             daily_high        |-> DailyHigh(stock_data, j),
             daily_low         |-> DailyLow(stock_data, j),
             rolling_max_30min |-> RollingMax(stock_data, j),
             is_daily_high     |-> stock_data[j].close_price >= DailyHigh(stock_data, j),
             is_daily_low      |-> stock_data[j].close_price <= DailyLow(stock_data, j),
             is_30min_high     |-> stock_data[j].close_price >= RollingMax(stock_data, j),
             large_total_ma30  |-> RollingMean(stock_data, j)] @@ stock_data[j]]

\* for symbol in self.stocks, from position n on: self.data.loc[...] = stock_data
RECURSIVE CsvPriceMovements(_, _, _)
CsvPriceMovements(d, symbols, n) ==
    IF n > Len(symbols) THEN d
    ELSE LET symbol == symbols[n]
             stock_data == CsvStockData(d, symbol)
             updated ==
                 [i \in 1..Len(d) |->
                     IF d[i].symbol = symbol
                     THEN stock_data[Cardinality({k \in 1..i : d[k].symbol = symbol})]
                     ELSE d[i]]
         IN  CsvPriceMovements(updated, symbols, n + 1)

\* the two flag columns of identify_leader_signals
CsvLeaderSignals(d, money_multiplier, min_amount, min_price_change) ==
    [i \in 1..Len(d) |->
        LET r == d[i]
            leader_signal ==
                /\ r.large_total * r.large_total_ma30[2] * money_multiplier[2]
                       > r.large_total_ma30[1] * money_multiplier[1]
                /\ r.large_total > min_amount
                /\ r.large_net > 0
                /\ r.return_1min # NaN
                /\ FracGT(r.return_1min, min_price_change)
                /\ (r.is_daily_high \/ r.is_30min_high)
            enhanced_leader_signal ==
                /\ leader_signal
                /\ r.large_total * r.large_total_ma30[2] * money_multiplier[2] * EnhancedDen
                       > r.large_total_ma30[1] * money_multiplier[1] * EnhancedNum
                /\ r.is_daily_high
        IN  [leader_signal          |-> leader_signal,
             enhanced_leader_signal |-> enhanced_leader_signal] @@ r]

\* a base price taken from the first row of the follower
CsvBasePrice_first(follower_base_data) == follower_base_data[1].close_price

\* base_price = follower_base_data.iloc[-1]['close_price']
CsvBasePrice(follower_base_data) ==
    follower_base_data[Len(follower_base_data)].close_price

\* for follower_symbol in self.stocks, from position k on
RECURSIVE CsvFollowers(_, _, _, _, _, _)
CsvFollowers(d, symbols, k, signal, max_lag_minutes, min_gain) ==
    IF k > Len(symbols) THEN <<>>
    ELSE
      LET follower_symbol == symbols[k]
          signal_time == signal.datetime
          window_start == signal_time
          window_end == signal_time + max_lag_minutes
          follower_base_data ==
              SelectSeq(d, LAMBDA r : r.symbol = follower_symbol /\ r.datetime <= signal_time)
          base_price == CsvBasePrice(follower_base_data)
          follower_window_data ==
              SelectSeq(d, LAMBDA r : /\ r.symbol = follower_symbol
                                      /\ r.datetime > window_start
                                      /\ r.datetime <= window_end)
          gain_pct(r) == <<(r.close_price - base_price) * 100, base_price>>
          significant_gains ==
              SelectSeq(follower_window_data, LAMBDA r : FracGE(gain_pct(r), min_gain))
          first_gain == significant_gains[1]
          rest == CsvFollowers(d, symbols, k + 1, signal, max_lag_minutes, min_gain)
      IN  IF follower_symbol = signal.symbol THEN rest
          ELSE IF follower_base_data = <<>> THEN rest
          ELSE IF follower_window_data = <<>> THEN rest
          ELSE IF significant_gains = <<>> THEN rest
          ELSE << [leader_symbol          |-> signal.symbol,
                   follower_symbol        |-> follower_symbol,
                   leader_time            |-> signal_time,
                   follower_time          |-> first_gain.datetime,
                   time_lag_minutes       |-> first_gain.datetime - signal_time,
                   leader_close           |-> signal.close_price,
                   leader_large_total     |-> signal.large_total,
                   leader_large_net       |-> signal.large_net,
                   leader_return_1min     |-> <<signal.return_1min[1] * 100,
                                                signal.return_1min[2]>>,
                   follower_base_price    |-> base_price,
                   follower_trigger_price |-> first_gain.close_price,
                   follower_gain_pct      |-> gain_pct(first_gain),
                   is_enhanced_signal     |-> signal.enhanced_leader_signal] >> \o rest

\* for idx, signal in leader_signals.iterrows(), from position n on
RECURSIVE CsvSignals(_, _, _, _, _, _)
CsvSignals(d, symbols, leader_signals, n, max_lag_minutes, min_gain) ==
    IF n > Len(leader_signals) THEN <<>>
    ELSE CsvFollowers(d, symbols, 1, leader_signals[n], max_lag_minutes, min_gain)
         \o CsvSignals(d, symbols, leader_signals, n + 1, max_lag_minutes, min_gain)

\* the pairs of analyze_leader_follower_relationships
CsvLeaderFollowerPairs(d, symbols, max_lag_minutes, min_gain) ==
    CsvSignals(d, symbols, SelectSeq(d, LAMBDA r : r.leader_signal), 1,
               max_lag_minutes, min_gain)

(***************************************************************************)
(* Parameters the callers pass.                                            *)
(***************************************************************************)
\* identify_leader_signals(money_multiplier=1.3, min_amount=5000000,
\*                         min_price_change=0.003)
DefaultSignalArgs ==
    [money_multiplier |-> <<13, 10>>, min_amount |-> 5000000,
     min_price_change |-> <<3, 1000>>]

MoneyMultipliers == { <<13, 10>>, <<2, 1>> }
MinAmounts == { 5000000, 10000000 }
MinPriceChanges == { <<3, 1000>>, <<15, 1000>> }

\* the defaults, or the defaults with one parameter changed
SignalArgs ==
    { a \in [money_multiplier : MoneyMultipliers, min_amount : MinAmounts,
             min_price_change : MinPriceChanges] :
        Cardinality({ f \in DOMAIN a : a[f] # DefaultSignalArgs[f] }) <= 1 }

\* values a caller may try to pass as enhanced_multiplier
EnhancedMultipliers == { <<3, 1>> }

MaxLags == { 1, 30 }
MinGains == { <<1, 1>>, <<2, 1>> }

(***************************************************************************)
(* The analyzer.                                                           *)
(***************************************************************************)
Init ==
    /\ pc = "new"
    /\ data = <<>>
    /\ stocks = <<>>
    /\ results = <<>>
    /\ args = <<>>
    /\ pairs_df = <<>>
    /\ csv_file = <<>>
    /\ engine = "sector"
    /\ stats = <<>>
    /\ report = <<>>
    /\ ret = <<>>
    /\ saved = <<>>
    /\ NoCombinedData /\ NoDateRange /\ NoMain

load_data ==
    /\ pc = "new"
    /\ \E csv \in CsvFiles :
          LET d == LoadedFrame(csv)
          IN  /\ data' = d
              /\ stocks' = SortedSet({d[i].symbol : i \in 1..Len(d)})
    /\ pc' = "loaded"
    /\ UNCHANGED <<results, args, pairs_df, csv_file, engine, otherVars, stats, report, ret, saved>>

calculate_price_movements ==
    /\ pc = "loaded"
    /\ data' = WithIndicators(data, stocks)
    /\ pc' = "calculated"
    /\ UNCHANGED <<stocks, results, args, pairs_df, csv_file, engine, otherVars, stats, report, ret, saved>>

identify_leader_signals ==
    /\ pc = "calculated"
    /\ \E a \in SignalArgs :
          LET d == WithSignals(data, a.money_multiplier, a.min_amount,
                               a.min_price_change)
          IN  /\ data' = d
              /\ results' = [leader_signals |-> SignalRows(d)] @@ results
              /\ args' = a @@ args
    /\ pc' = "identified"
    /\ UNCHANGED <<stocks, pairs_df, csv_file, engine, otherVars, stats, report, ret, saved>>

\* identify_leader_signals(enhanced_multiplier=...): the method has no such
\* parameter, the call raises TypeError before its body runs
identify_leader_signals_enhanced_multiplier ==
    /\ pc = "calculated"
    /\ \E enhanced_multiplier \in EnhancedMultipliers :
          args' = [enhanced_multiplier |-> enhanced_multiplier] @@ args
    /\ pc' = "TypeError"
    /\ UNCHANGED <<data, stocks, results, pairs_df, csv_file, engine, otherVars, stats, report, ret, saved>>

analyze_leader_follower_relationships ==
    /\ pc = "identified"
    /\ \E max_lag_minutes \in MaxLags, min_gain \in MinGains :
          LET pairs == LeaderFollowerPairs(data, stocks, max_lag_minutes, min_gain)
          IN  /\ pairs_df' = pairs
              /\ results' = IF pairs # <<>>
                            THEN [leader_follower_pairs |-> pairs] @@ results
                            ELSE results
              /\ args' = [max_lag_minutes |-> max_lag_minutes,
                          min_gain        |-> min_gain] @@ args
    /\ pc' = "analyzed"
    /\ UNCHANGED <<data, stocks, csv_file, engine, otherVars, stats, report, ret, saved>>

Next ==
    \/ load_data
    \/ calculate_price_movements
    \/ identify_leader_signals
    \/ identify_leader_signals_enhanced_multiplier
    \/ analyze_leader_follower_relationships

Spec == Init /\ [][Next]_vars

(***************************************************************************)
(* The analyzer of a sector file, called method by method through          *)
(* calculate_success_rates; the caller may pass a multiplier or a window   *)
(* that makes no sense.                                                    *)
(***************************************************************************)
\* analyze_leader_follower_relationships(max_lag_minutes=30, min_gain=0.5)
DefaultRelationArgs == [max_lag_minutes |-> 30, min_gain |-> <<1, 2>>]

\* the defaults, or a multiplier of 1.0
SectorSignalArgs ==
    { DefaultSignalArgs, [DefaultSignalArgs EXCEPT !.money_multiplier = <<1, 1>>] }

\* the defaults, a window of no minute, or a floor of 5%
SectorRelationArgs ==
    { DefaultRelationArgs,
      [DefaultRelationArgs EXCEPT !.max_lag_minutes = 0],
      [DefaultRelationArgs EXCEPT !.min_gain = <<5, 1>>] }

InitSector ==
    /\ pc = "new"
    /\ data = <<>>
    /\ stocks = <<>>
    /\ results = <<>>
    /\ args = <<>>
    /\ pairs_df = <<>>
    /\ csv_file \in SectorFiles
    /\ engine = "sector"
    /\ stats = <<>>
    /\ report = <<>>
    /\ ret = <<>>
    /\ saved = <<>>
    /\ NoCombinedData /\ NoDateRange /\ NoMain

\* load_data of an analyzer built on csv_file
load_data_csv_file ==
    /\ pc = "new"
    /\ csv_file # <<>>
    /\ LET d == LoadedFrame(csv_file)
       IN  /\ data' = d
           /\ stocks' = SortedSet({d[i].symbol : i \in 1..Len(d)})
    /\ pc' = "loaded"
    /\ UNCHANGED <<results, args, pairs_df, csv_file, engine, otherVars, stats, report, ret, saved>>

identify_leader_signals_sector ==
    /\ pc = "calculated"
    /\ \E a \in SectorSignalArgs :
          LET d == WithSignals(data, a.money_multiplier, a.min_amount,
                               a.min_price_change)
          IN  /\ data' = d
              /\ results' = [leader_signals |-> SignalRows(d)] @@ results
              /\ args' = a @@ args
    /\ pc' = "identified"
    /\ UNCHANGED <<stocks, pairs_df, csv_file, engine, otherVars, stats, report, ret, saved>>

analyze_leader_follower_relationships_sector ==
    /\ pc = "identified"
    /\ \E a \in SectorRelationArgs :
          LET pairs == LeaderFollowerPairs(data, stocks, a.max_lag_minutes, a.min_gain)
          IN  /\ pairs_df' = pairs
              /\ results' = IF pairs # <<>>
                            THEN [leader_follower_pairs |-> pairs] @@ results
                            ELSE results
              /\ args' = a @@ args
    /\ pc' = "analyzed"
    /\ UNCHANGED <<data, stocks, csv_file, engine, otherVars, stats, report, ret, saved>>

\* an aggregator that starts as soon as the signals are identified, on the
\* pair frame of before the matcher
calculate_success_rates_early ==
    /\ pc = "identified"
    /\ stats' = <<>>
    /\ pc' = "aggregated"
    /\ UNCHANGED <<data, stocks, results, args, pairs_df, csv_file, engine, otherVars, report,
                   ret, saved>>

\* calculate_success_rates(pairs_df): {} for an empty frame, and then
\* self.results is left alone
calculate_success_rates ==
    /\ pc = "analyzed"
    /\ IF pairs_df = <<>>
       THEN /\ stats' = <<>>
            /\ UNCHANGED results
       ELSE \E st \in SuccessRates(pairs_df) :
               /\ stats' = st
               /\ results' = [statistics |-> st] @@ results
    /\ pc' = "aggregated"
    /\ UNCHANGED <<data, stocks, args, pairs_df, csv_file, engine, otherVars, report, ret, saved>>

NextSector ==
    \/ load_data_csv_file
    \/ calculate_price_movements
    \/ identify_leader_signals_sector
    \/ analyze_leader_follower_relationships_sector
    \/ calculate_success_rates

SectorSpec == InitSector /\ [][NextSector]_vars

(***************************************************************************)
(* run_complete_analysis of either analyzer class, call by call.  The      *)
(* csv class reads the files of its csv directory (csv_file = <<>>: the    *)
(* directory holds no file of the period).                                 *)
(***************************************************************************)
Engines == {"sector", "csv"}

\* the defaults of identify_leader_signals in the class of the analyzer
DefaultSignalArgsOf(e) ==
    IF e = "csv"
    THEN [money_multiplier |-> <<2, 1>>, min_amount |-> 1000000,
          min_price_change |-> <<1, 100>>]
    ELSE DefaultSignalArgs

\* the files of 3037 with a varied series and 8046 with its fixed series
RunFiles ==
    { Spread(x) \o FixedSeries(SectorSymbols[3]) : x \in RichSeries(SectorSymbols[1]) }

\* the value of `return None`
None == [is_None |-> TRUE]

\* the figures generate_comprehensive_report writes into its text
Report(pairs, st) ==
    [total_pairs           |-> st.total_pairs,
     average_time_lag      |-> Round2(st.average_time_lag),
     median_time_lag       |-> Round2(st.median_time_lag),
     average_follower_gain |-> Round2(st.average_follower_gain),
     max_follower_gain     |-> Round2(st.max_follower_gain),
     best_leader           |-> st.leader_ranking[1].leader_symbol]

\* frame['trade_date'] = frame['leader_time'].dt.date
WithTradeDate(pairs) ==
    [n \in 1..Len(pairs) |-> [trade_date |-> Date(pairs[n].leader_time)] @@ pairs[n]]

\* filter_active_stocks with at most max_stocks active stocks: every stock
\* of a pair is selected; the filtered frame is a new frame
FilterActiveStocks(pairs) ==
    LET active == { pairs[n].leader_symbol : n \in 1..Len(pairs) } \cup
                  { pairs[n].follower_symbol : n \in 1..Len(pairs) }
    IN  [selected_stocks   |-> SortedSet(active),
         pairs_df_filtered |->
             Mask(pairs, [n \in 1..Len(pairs) |->
                             /\ pairs[n].leader_symbol \in active
                             /\ pairs[n].follower_symbol \in active])]

\* the caller's frame after the chart functions: the csv class assigns
\* trade_date on the frame it was passed, the sector class on the frame
\* filter_active_stocks returned
AfterCharts(e, pairs) ==
    LET filtered_pairs_df == WithTradeDate(FilterActiveStocks(pairs).pairs_df_filtered)
    IN  IF e = "csv" THEN WithTradeDate(pairs) ELSE pairs

InitRun ==
    /\ pc = "new"
    /\ data = <<>>
    /\ stocks = <<>>
    /\ results = <<>>
    /\ args = <<>>
    /\ pairs_df = <<>>
    /\ engine \in Engines
    /\ csv_file \in (IF engine = "csv" THEN RunFiles \cup {<<>>} ELSE RunFiles)
    /\ stats = <<>>
    /\ report = <<>>
    /\ ret = <<>>
    /\ saved = <<>>
    /\ NoCombinedData /\ NoDateRange /\ NoMain

\* if self.load_data() is None: return None
run_load_data ==
    /\ pc = "new"
    /\ IF csv_file = <<>>
       THEN /\ ret' = None
            /\ pc' = "done"
            /\ UNCHANGED <<data, stocks>>
       ELSE /\ LET d == LoadedFrame(csv_file)
               IN  /\ data' = d
                   /\ stocks' = SortedSet({d[i].symbol : i \in 1..Len(d)})
            /\ pc' = "loaded"
            /\ UNCHANGED ret
    /\ UNCHANGED <<results, args, pairs_df, csv_file, engine, otherVars, stats, report, saved>>

\* signal_count = self.identify_leader_signals(); 0: return None
run_identify_leader_signals ==
    /\ pc = "calculated"
    /\ LET a == DefaultSignalArgsOf(engine)
           d == WithSignals(data, a.money_multiplier, a.min_amount,
                            a.min_price_change)
       IN  /\ data' = d
           /\ results' = [leader_signals |-> SignalRows(d)] @@ results
           /\ args' = a @@ args
           /\ IF SignalRows(d) = <<>>
              THEN ret' = None /\ pc' = "done"
              ELSE pc' = "identified" /\ UNCHANGED ret
    /\ UNCHANGED <<stocks, pairs_df, csv_file, engine, otherVars, stats, report, saved>>

\* pairs_df = self.analyze_leader_follower_relationships(); empty: return None
run_analyze_leader_follower_relationships ==
    /\ pc = "identified"
    /\ LET a == DefaultRelationArgs
           pairs == LeaderFollowerPairs(data, stocks, a.max_lag_minutes, a.min_gain)
       IN  /\ pairs_df' = pairs
           /\ results' = IF pairs # <<>>
                         THEN [leader_follower_pairs |-> pairs] @@ results
                         ELSE results
           /\ args' = a @@ args
           /\ IF pairs = <<>>
              THEN ret' = None /\ pc' = "done"
              ELSE pc' = "analyzed" /\ UNCHANGED ret
    /\ UNCHANGED <<data, stocks, csv_file, engine, otherVars, stats, report, saved>>

\* report = self.generate_comprehensive_report(pairs_df, stats)
run_generate_comprehensive_report ==
    /\ pc = "aggregated"
    /\ report' = Report(pairs_df, stats)
    /\ pc' = "reported"
    /\ UNCHANGED <<data, stocks, results, args, pairs_df, csv_file, engine, otherVars, stats,
                   ret, saved>>

\* create_visualizations, filter_active_stocks and the chart functions;
\* self.results['leader_follower_pairs'] is the caller's frame itself
run_create_charts ==
    /\ pc = "reported"
    /\ pairs_df' = AfterCharts(engine, pairs_df)
    /\ results' = [leader_follower_pairs |-> AfterCharts(engine, pairs_df)] @@ results
    /\ pc' = "charted"
    /\ UNCHANGED <<data, stocks, args, csv_file, engine, otherVars, stats, report, ret, saved>>

\* self.save_detailed_results(pairs_df): pairs_df.to_csv(detailed_file)
run_save_detailed_results ==
    /\ pc = "charted"
    /\ saved' = pairs_df
    /\ pc' = "saved"
    /\ UNCHANGED <<data, stocks, results, args, pairs_df, csv_file, engine, otherVars, stats,
                   report, ret>>

\* return {'pairs_df': pairs_df, 'statistics': stats, 'report': report}
run_return ==
    /\ pc = "saved"
    /\ ret' = [pairs_df |-> pairs_df, statistics |-> stats, report |-> report]
    /\ pc' = "done"
    /\ UNCHANGED <<data, stocks, results, args, pairs_df, csv_file, engine, otherVars, stats,
                   report, saved>>

NextRun ==
    \/ run_load_data
    \/ calculate_price_movements
    \/ run_identify_leader_signals
    \/ run_analyze_leader_follower_relationships
    \/ calculate_success_rates
    \/ run_generate_comprehensive_report
    \/ run_create_charts
    \/ run_save_detailed_results
    \/ run_return

RunSpec == InitRun /\ [][NextRun]_vars

(***************************************************************************)
(* The indicators and the signal flags on long and on short files; the     *)
(* caller may pass a multiplier below 1 and a price change of zero or      *)
(* less.                                                                   *)
(***************************************************************************)
IndicatorSignalArgs ==
    { [DefaultSignalArgs EXCEPT !.money_multiplier = m, !.min_price_change = c] :
        m \in { <<1, 2>>, <<2, 1>> },
        c \in { <<-1, 100>>, <<0, 1>>, <<3, 1000>> } }

InitIndicator ==
    /\ pc = "new"
    /\ data = <<>>
    /\ stocks = <<>>
    /\ results = <<>>
    /\ args = <<>>
    /\ pairs_df = <<>>
    /\ csv_file \in LongFiles \cup RunFiles
    /\ engine = "sector"
    /\ stats = <<>>
    /\ report = <<>>
    /\ ret = <<>>
    /\ saved = <<>>
    /\ NoCombinedData /\ NoDateRange /\ NoMain

identify_leader_signals_indicator ==
    /\ pc = "calculated"
    /\ \E a \in IndicatorSignalArgs :
          LET d == WithSignals(data, a.money_multiplier, a.min_amount,
                               a.min_price_change)
          IN  /\ data' = d
              /\ results' = [leader_signals |-> SignalRows(d)] @@ results
              /\ args' = a @@ args
    /\ pc' = "identified"
    /\ UNCHANGED <<stocks, pairs_df, csv_file, engine, otherVars, stats, report, ret, saved>>

NextIndicator ==
    \/ load_data_csv_file
    \/ calculate_price_movements
    \/ identify_leader_signals_indicator

IndicatorSpec == InitIndicator /\ [][NextIndicator]_vars

(***************************************************************************)
(* One analyzer on which the caller repeats                                *)
(* analyze_leader_follower_relationships and calculate_success_rates with  *)
(* other parameters.                                                       *)
(***************************************************************************)
\* the sector files whose varied series has at most one bar
SmallSectorFiles ==
    UNION { { SectorFile(k, Spread(x)) : x \in SeriesFrom(SectorSymbols[k], 1, 1) } :
            k \in 1..Len(SectorSymbols) }

InitRepeat ==
    /\ pc = "new"
    /\ data = <<>>
    /\ stocks = <<>>
    /\ results = <<>>
    /\ args = <<>>
    /\ pairs_df = <<>>
    /\ csv_file \in SmallSectorFiles
    /\ engine = "sector"
    /\ stats = <<>>
    /\ report = <<>>
    /\ ret = <<>>
    /\ saved = <<>>
    /\ NoCombinedData /\ NoDateRange /\ NoMain

\* analyze_leader_follower_relationships, called for the first time or again
analyze_leader_follower_relationships_again ==
    /\ pc \in {"identified", "analyzed", "aggregated"}
    /\ \E a \in SectorRelationArgs :
          LET pairs == LeaderFollowerPairs(data, stocks, a.max_lag_minutes, a.min_gain)
          IN  /\ pairs_df' = pairs
              /\ results' = IF pairs # <<>>
                            THEN [leader_follower_pairs |-> pairs] @@ results
                            ELSE results
              /\ args' = a @@ args
    /\ pc' = "analyzed"
    /\ UNCHANGED <<data, stocks, csv_file, engine, otherVars, stats, report, ret, saved>>

NextRepeat ==
    \/ load_data_csv_file
    \/ calculate_price_movements
    \/ identify_leader_signals_sector
    \/ analyze_leader_follower_relationships_again
    \/ calculate_success_rates

RepeatSpec == InitRepeat /\ [][NextRepeat]_vars

(***************************************************************************)
(* An analyzer of either class on the same bars, every parameter passed    *)
(* explicitly.                                                             *)
(***************************************************************************)
\* the defaults of one class or of the other, passed as arguments
ExplicitSignalArgs == { DefaultSignalArgsOf(e) : e \in Engines }

ExplicitRelationArgs ==
    { DefaultRelationArgs, [max_lag_minutes |-> 1, min_gain |-> <<2, 1>>] }

\* the sector files in which 3189 or 8046 has the varied series
EngineFiles ==
    UNION { { SectorFile(k, Spread(x)) : x \in RichSeries(SectorSymbols[k]) } :
            k \in 2..Len(SectorSymbols) }

InitEngine ==
    /\ pc = "new"
    /\ data = <<>>
    /\ stocks = <<>>
    /\ results = <<>>
    /\ args = <<>>
    /\ pairs_df = <<>>
    /\ engine \in Engines
    /\ csv_file \in EngineFiles
    /\ stats = <<>>
    /\ report = <<>>
    /\ ret = <<>>
    /\ saved = <<>>
    /\ NoCombinedData /\ NoDateRange /\ NoMain

\* calculate_price_movements of the class of the analyzer
calculate_price_movements_engine ==
    /\ pc = "loaded"
    /\ data' = IF engine = "csv" THEN CsvPriceMovements(data, stocks, 1)
               ELSE WithIndicators(data, stocks)
    /\ pc' = "calculated"
    /\ UNCHANGED <<stocks, results, args, pairs_df, csv_file, engine, otherVars, stats, report, ret, saved>>

\* identify_leader_signals of the class of the analyzer
identify_leader_signals_engine ==
    /\ pc = "calculated"
    /\ \E a \in ExplicitSignalArgs :
          LET d == IF engine = "csv"
                   THEN CsvLeaderSignals(data, a.money_multiplier, a.min_amount,
                                         a.min_price_change)
                   ELSE WithSignals(data, a.money_multiplier, a.min_amount,
                                    a.min_price_change)
          IN  /\ data' = d
              /\ results' = [leader_signals |-> SelectSeq(d, LAMBDA r : r.leader_signal)]
                                @@ results
              /\ args' = a @@ args
    /\ pc' = "identified"
    /\ UNCHANGED <<stocks, pairs_df, csv_file, engine, otherVars, stats, report, ret, saved>>

\* analyze_leader_follower_relationships of the class of the analyzer
analyze_leader_follower_relationships_engine ==
    /\ pc = "identified"
    /\ \E a \in ExplicitRelationArgs :
          LET pairs == IF engine = "csv"
                       THEN CsvLeaderFollowerPairs(data, stocks, a.max_lag_minutes,
                                                   a.min_gain)
                       ELSE LeaderFollowerPairs(data, stocks, a.max_lag_minutes,
                                                a.min_gain)
          IN  /\ pairs_df' = pairs
              /\ results' = IF pairs # <<>>
                            THEN [leader_follower_pairs |-> pairs] @@ results
                            ELSE results
              /\ args' = a @@ args
    /\ pc' = "analyzed"
    /\ UNCHANGED <<data, stocks, csv_file, engine, otherVars, stats, report, ret, saved>>

NextEngine ==
    \/ load_data_csv_file
    \/ calculate_price_movements_engine
    \/ identify_leader_signals_engine
    \/ analyze_leader_follower_relationships_engine

EngineSpec == InitEngine /\ [][NextEngine]_vars

(***************************************************************************)
(* SectorAnalyzer (src/SectorAnalyzer.py): calculate_signals and           *)
(* analyze_leader_follower on the combined data of a sector.               *)
(***************************************************************************)
\* large_threshold and xlarge_threshold of calculate_signals
large_threshold == 1000000
xlarge_threshold == 5000000

\* one row of the BigBuySell format
AnalyzerBar(s, t, c, f) ==
    [symbol |-> s, datetime |-> t, close |-> c,
     large_buy |-> f[1], xlarge_buy |-> f[2], large_sell |-> f[3], xlarge_sell |-> f[4]]

AnalyzerCloses == {100, 102}
AnalyzerFlows == { Quiet, Burst, Sold }

\* every series of symbol s: k bars on increasing slots, k <= MaxBars
RECURSIVE BarsFrom(_, _, _)
BarsFrom(s, first, k) ==
    IF k = 0 \/ first > Len(Slots) THEN {<<>>}
    ELSE {<<>>} \cup
         UNION { { <<AnalyzerBar(s, Slots[j], c, f)>> \o rest :
                     c \in AnalyzerCloses, f \in AnalyzerFlows,
                     rest \in BarsFrom(s, j + 1, k - 1) } :
                 j \in first..Len(Slots) }

\* the fixed series of the other symbol, from 09:01 to 09:04: large buying
\* on a rise at 09:02 and at 09:04, large selling on a fall at 09:03
OtherBars(s) ==
    <<AnalyzerBar(s, Slots[2], 100, Quiet), AnalyzerBar(s, Slots[3], 102, Burst),
      AnalyzerBar(s, Slots[4], 100, Sold), AnalyzerBar(s, Slots[4] + 1, 102, Burst)>>

\* sort_values(['datetime', 'symbol'])
RECURSIVE SortByDatetime(_)
SortByDatetime(s) ==
    IF s = <<>> THEN <<>>
    ELSE LET i == CHOOSE i \in 1..Len(s) : \A k \in 1..Len(s) :
                     \/ s[i].datetime < s[k].datetime
                     \/ (s[i].datetime = s[k].datetime /\ s[i].symbol <= s[k].symbol)
         IN  <<s[i]>> \o SortByDatetime(SubSeq(s, 1, i - 1) \o SubSeq(s, i + 1, Len(s)))

\* the frames load_all_data may build for the sector of 3037, 3189 and 8046:
\* 3189 has no data, one of the two others has a varied series
CombinedFrames ==
    LET a == SectorSymbols[1]
        b == SectorSymbols[3]
    IN  { SortByDatetime(x \o OtherBars(b)) : x \in BarsFrom(a, 1, MaxBars) } \cup
        { SortByDatetime(OtherBars(a) \o y) : y \in BarsFrom(b, 1, MaxBars) }

\* df.groupby('symbol')['close'].pct_change() at row i
GroupPctChange(df, i) ==
    LET before == { k \in 1..(i - 1) : df[k].symbol = df[i].symbol }
    IN  IF before = {} THEN NaN
        ELSE LET k == CHOOSE k \in before : \A q \in before : q <= k
             IN  <<df[i].close - df[k].close, df[k].close>>

\* the columns calculate_signals adds
WithTradingSignals(df) ==
    [i \in 1..Len(df) |->
        LET r == GroupPctChange(df, i)
        IN  [return_1min        |-> r,
             strong_buy_signal  |->
                 /\ (df[i].large_buy > large_threshold \/ df[i].xlarge_buy > xlarge_threshold)
                 /\ r # NaN
                 /\ FracGT(r, <<5, 1000>>),
             strong_sell_signal |->
                 /\ (df[i].large_sell > large_threshold
                        \/ df[i].xlarge_sell > xlarge_threshold)
                 /\ r # NaN
                 /\ FracGT(<<-5, 1000>>, r)] @@ df[i]]

Abs(n) == IF n < 0 THEN -n ELSE n

\* a + b for fractions of either sign, in lowest terms
SignedFracAdd(a, b) ==
    LET n == a[1] * b[2] + b[1] * a[2]
        d == a[2] * b[2]
        g == GCD(d, Abs(n))
    IN  <<n \div g, d \div g>>

\* Series.cumsum(): the running sum; a NaN is skipped and stays NaN
RECURSIVE RunningSum(_, _)
RunningSum(returns, i) ==
    IF i = 0 THEN <<0, 1>>
    ELSE IF returns[i] = NaN THEN RunningSum(returns, i - 1)
    ELSE SignedFracAdd(returns[i], RunningSum(returns, i - 1))

CumSum(returns) ==
    [i \in 1..Len(returns) |->
        IF returns[i] = NaN THEN NaN ELSE RunningSum(returns, i)]

\* Series.idxmax(): the first position of the largest value that is not NaN
\* (0: there is none, max() is NaN)
IdxMax(cumsum) ==
    LET valid == { i \in 1..Len(cumsum) : cumsum[i] # NaN }
        best == { i \in valid : \A k \in valid : FracGE(cumsum[i], cumsum[k]) }
    IN  IF valid = {} THEN 0 ELSE CHOOSE i \in best : \A k \in best : i <= k

IdxMin(cumsum) ==
    LET valid == { i \in 1..Len(cumsum) : cumsum[i] # NaN }
        best == { i \in valid : \A k \in valid : FracGE(cumsum[k], cumsum[i]) }
    IN  IF valid = {} THEN 0 ELSE CHOOSE i \in best : \A k \in best : i <= k

InResponseWindow_closed(datetime, signal_time, end_time) ==
    datetime >= signal_time /\ datetime <= end_time

\* the test that selects the response window of a signal
InResponseWindow(datetime, signal_time, end_time) ==
    datetime > signal_time /\ datetime <= end_time

\* the rows of one symbol, in the order of the frame
SymbolData(df, symbol) == SelectSeq(df, LAMBDA r : r.symbol = symbol)

\* leader_buy_times, leader_sell_times
SignalTimes(leader_data, flag) ==
    Column(SelectSeq(leader_data, LAMBDA r : r[flag]), "datetime")

ResponseWindow(follower_data, signal_time, max_lag_minutes) ==
    SelectSeq(follower_data,
              LAMBDA r : InResponseWindow(r.datetime, signal_time,
                                          signal_time + max_lag_minutes))

\* what one buy signal appends to buy_responses: nothing or one response
BuyResponse(follower_data, signal_time, max_lag_minutes) ==
    LET response_window == ResponseWindow(follower_data, signal_time, max_lag_minutes)
        cumsum == CumSum(Column(response_window, "return_1min"))
        max_idx == IdxMax(cumsum)
    IN  IF response_window = <<>> \/ max_idx = 0 THEN <<>>
        ELSE IF FracGT(cumsum[max_idx], <<5, 1000>>)
             THEN <<[lag     |-> response_window[max_idx].datetime - signal_time,
                     return  |-> cumsum[max_idx]]>>
             ELSE <<>>

\* what one sell signal appends to sell_responses
SellResponse(follower_data, signal_time, max_lag_minutes) ==
    LET response_window == ResponseWindow(follower_data, signal_time, max_lag_minutes)
        cumsum == CumSum(Column(response_window, "return_1min"))
        min_idx == IdxMin(cumsum)
    IN  IF response_window = <<>> \/ min_idx = 0 THEN <<>>
        ELSE IF FracGT(<<-5, 1000>>, cumsum[min_idx])
             THEN <<[lag     |-> response_window[min_idx].datetime - signal_time,
                     return  |-> <<Abs(cumsum[min_idx][1]), cumsum[min_idx][2]>>]>>
             ELSE <<>>

\* the loops over leader_buy_times and leader_sell_times
RECURSIVE BuyResponses(_, _, _)
BuyResponses(follower_data, times, max_lag_minutes) ==
    IF times = <<>> THEN <<>>
    ELSE BuyResponse(follower_data, Head(times), max_lag_minutes)
            \o BuyResponses(follower_data, Tail(times), max_lag_minutes)

RECURSIVE SellResponses(_, _, _)
SellResponses(follower_data, times, max_lag_minutes) ==
    IF times = <<>> THEN <<>>
    ELSE SellResponse(follower_data, Head(times), max_lag_minutes)
            \o SellResponses(follower_data, Tail(times), max_lag_minutes)

\* len(responses) / max(len(times), 1)
SuccessRate(responses, times) ==
    <<Len(responses), IF Len(times) > 1 THEN Len(times) ELSE 1>>

\* np.mean of a column of the responses, 0 when there is none
SignedFracMean(column) ==
    LET t == RunningSum(column, Len(column)) IN <<t[1], t[2] * Len(column)>>

\* the entry stored for leader and follower
Correlation(buy_responses, sell_responses, leader_buy_times, leader_sell_times) ==
    [buy_responses     |-> Len(buy_responses),
     sell_responses    |-> Len(sell_responses),
     buy_success_rate  |-> SuccessRate(buy_responses, leader_buy_times),
     sell_success_rate |-> SuccessRate(sell_responses, leader_sell_times),
     avg_buy_lag       |-> IF buy_responses # <<>>
                           THEN Mean(Column(buy_responses, "lag")) ELSE <<0, 1>>,
     avg_sell_lag      |-> IF sell_responses # <<>>
                           THEN Mean(Column(sell_responses, "lag")) ELSE <<0, 1>>,
     avg_buy_return    |-> IF buy_responses # <<>>
                           THEN SignedFracMean(Column(buy_responses, "return"))
                           ELSE <<0, 1>>,
     avg_sell_return   |-> IF sell_responses # <<>>
                           THEN SignedFracMean(Column(sell_responses, "return"))
                           ELSE <<0, 1>>]

\* the stocks of the sector, as the loops visit them
SectorStockSet(sector_stocks) == { sector_stocks[n] : n \in 1..Len(sector_stocks) }

\* correlations[leader]: the followers with at least one response
LeaderCorrelations(df, sector_stocks, leader, max_lag_minutes) ==
    LET leader_data == SymbolData(df, leader)
        leader_buy_times == SignalTimes(leader_data, "strong_buy_signal")
        leader_sell_times == SignalTimes(leader_data, "strong_sell_signal")
        buy(f) == BuyResponses(SymbolData(df, f), leader_buy_times, max_lag_minutes)
        sell(f) == SellResponses(SymbolData(df, f), leader_sell_times, max_lag_minutes)
        followers ==
            IF leader_data = <<>> \/ (leader_buy_times = <<>> /\ leader_sell_times = <<>>)
            THEN {}
            ELSE { f \in SectorStockSet(sector_stocks) \ {leader} :
                     /\ SymbolData(df, f) # <<>>
                     /\ (buy(f) # <<>> \/ sell(f) # <<>>) }
    IN  [f \in followers |->
            Correlation(buy(f), sell(f), leader_buy_times, leader_sell_times)]

Correlations(df, sector_stocks, max_lag_minutes) ==
    [leader \in SectorStockSet(sector_stocks) |->
        LeaderCorrelations(df, sector_stocks, leader, max_lag_minutes)]

LagArgs == {1, 2, 30}

\* SectorAnalyzer(sector_file): no data yet
InitSectorAnalyzer ==
    /\ pc = "constructed"
    /\ NoAnalyzer
    /\ NoCombinedData
    /\ NoDateRange
    /\ NoMain

\* load_all_data: the sector's stocks and their combined, sorted rows
load_all_data ==
    /\ pc = "constructed"
    /\ \E frame \in CombinedFrames : combined_data' = frame
    /\ stocks' = SectorSymbols
    /\ pc' = "combined"
    /\ UNCHANGED <<data, results, args, pairs_df, csv_file, engine, stats, report, ret,
                   saved, dateRangeVars, mainVars>>

calculate_signals ==
    /\ pc = "combined"
    /\ combined_data' = WithTradingSignals(combined_data)
    /\ pc' = "signalled"
    /\ UNCHANGED <<analyzerVars, dateRangeVars, mainVars>>

analyze_leader_follower ==
    /\ pc \in {"signalled", "correlated"}
    /\ \E max_lag_minutes \in LagArgs :
          /\ args' = [max_lag_minutes |-> max_lag_minutes]
          /\ results' = [correlations |->
                            Correlations(combined_data, stocks, max_lag_minutes)]
    /\ pc' = "correlated"
    /\ UNCHANGED <<data, stocks, pairs_df, csv_file, engine, stats, report, ret, saved,
                   otherVars>>

NextSectorAnalyzer ==
    \/ load_all_data
    \/ calculate_signals
    \/ analyze_leader_follower

SectorAnalyzerSpec == InitSectorAnalyzer /\ [][NextSectorAnalyzer]_vars

(***************************************************************************)
(* GetSectorData (src/GetSectorData.py): generate_date_range.  A period    *)
(* "YYYYMM" is the number YYYY * 100 + MM.                                 *)
(***************************************************************************)
FirstYear == 2024

\* the periods --start and --end may name
PeriodArgs ==
    { y * 100 + m : y \in FirstYear..(FirstYear + MaxYears - 1), m \in 1..12 }

\* int(period[:4]), int(period[4:])
YearOf(period) == period \div 100
MonthOf(period) == period % 100

\* f"{current_year:04d}{current_month:02d}"
FormatPeriod(year, month) == year * 100 + month

WhileCondition_exclusive(year, month, end_year, end_month) ==
    (year < end_year) \/ (year = end_year /\ month < end_month)

\* the condition of the while loop
WhileCondition(year, month, end_year, end_month) ==
    (year < end_year) \/ (year = end_year /\ month <= end_month)

\* generate_date_range(start_period, end_period) is called
InitDateRange ==
    /\ pc = "called"
    /\ start_period \in PeriodArgs
    /\ end_period \in PeriodArgs
    /\ current_year = 0
    /\ current_month = 0
    /\ periods = <<>>
    /\ NoAnalyzer
    /\ NoCombinedData
    /\ NoMain

\* the assignments before the loop
generate_date_range_enter ==
    /\ pc = "called"
    /\ periods' = <<>>
    /\ current_year' = YearOf(start_period)
    /\ current_month' = MonthOf(start_period)
    /\ pc' = "while"
    /\ UNCHANGED <<start_period, end_period, analyzerVars, combined_data, mainVars>>

\* one pass of the loop body
generate_date_range_while ==
    /\ pc = "while"
    /\ WhileCondition(current_year, current_month,
                      YearOf(end_period), MonthOf(end_period))
    /\ periods' = Append(periods, FormatPeriod(current_year, current_month))
    /\ IF current_month + 1 > 12
       THEN current_month' = 1 /\ current_year' = current_year + 1
       ELSE current_month' = current_month + 1 /\ current_year' = current_year
    /\ UNCHANGED <<pc, start_period, end_period, analyzerVars, combined_data, mainVars>>

\* the loop condition fails: return periods
generate_date_range_return ==
    /\ pc = "while"
    /\ ~WhileCondition(current_year, current_month,
                       YearOf(end_period), MonthOf(end_period))
    /\ pc' = "returned"
    /\ UNCHANGED <<dateRangeVars, analyzerVars, combined_data, mainVars>>

NextDateRange ==
    \/ generate_date_range_enter
    \/ generate_date_range_while
    \/ generate_date_range_return

\* the interpreter keeps executing the call: a step that can be taken is taken
DateRangeSpec == InitDateRange /\ [][NextDateRange]_vars /\ WF_vars(NextDateRange)

(***************************************************************************)
(* GetSectorData (src/GetSectorData.py): main, process_stock and the two   *)
(* download functions.  A local file is <<kind, stock, period>>; calls is  *)
(* the list of the invocations <<function, stock, period>> in their order. *)
(***************************************************************************)
\* what read_sector_file may return for a sector of --sector: nothing (the
\* file is missing), or stocks, possibly one stock twice
SectorLists ==
    LET a == SectorSymbols[1]
        b == SectorSymbols[3]
    IN  { <<>>, <<a>>, <<a, b>>, <<b, a, b>> }

\* --sector names one or two sectors
SectorArgs ==
    { <<x>> : x \in SectorLists } \cup { <<x, y>> : x \in SectorLists, y \in SectorLists }

\* --start is December of the first year, --end the same month or the next
\* (parse_arguments exits when start > end)
MainStart == FormatPeriod(FirstYear, 12)
MainEnds == { MainStart, FormatPeriod(FirstYear + 1, 1) }

\* the local folders before the run
LocalFilesBefore == { {}, { <<"Min", SectorSymbols[1], MainStart>> } }

AlreadyProcessed_never(stock_id, processed) == FALSE

\* stock_id in processed_stocks
AlreadyProcessed(stock_id, processed) == stock_id \in processed

\* the stock and the period the loops of process_stock are at
StockAt == sectors[at.sector][at.stock]
PeriodAt == periods[at.period]

\* what a download function can do: find the file, or run DJFile, which
\* succeeds or fails; creating the folder may raise
Outcomes(local_file) ==
    IF local_file \in local_files THEN {"exists", "raised"}
    ELSE {"downloaded", "failed", "raised"}

\* main() is started: it calls generate_date_range(args.start, args.end)
InitMain ==
    /\ pc = "called"
    /\ start_period = MainStart
    /\ end_period \in MainEnds
    /\ current_year = 0
    /\ current_month = 0
    /\ periods = <<>>
    /\ sectors \in SectorArgs
    /\ processed_stocks = {}
    /\ at = <<>>
    /\ local_files \in LocalFilesBefore
    /\ calls = <<>>
    /\ NoAnalyzer
    /\ NoCombinedData

\* periods returned: processed_stocks = set(), the loop over sectors starts
main_process_sectors ==
    /\ pc = "returned"
    /\ processed_stocks' = {}
    /\ at' = [sector |-> 1, stock |-> 0, period |-> 0, extracted |-> {}]
    /\ pc' = "sector"
    /\ UNCHANGED <<sectors, local_files, calls, dateRangeVars, analyzerVars, combined_data>>

\* the body of the loop over sectors, up to the loop over its stocks
read_sector_file ==
    /\ pc = "sector"
    /\ at.sector <= Len(sectors)
    /\ IF sectors[at.sector] = <<>>
       THEN /\ at' = [at EXCEPT !.sector = @ + 1]
            /\ pc' = pc
       ELSE /\ at' = [at EXCEPT !.stock = 1]
            /\ pc' = "stock"
    /\ UNCHANGED <<sectors, processed_stocks, local_files, calls, dateRangeVars,
                   analyzerVars, combined_data>>

\* process_stock up to its loop over periods
process_stock ==
    /\ pc = "stock"
    /\ at.stock <= Len(sectors[at.sector])
    /\ IF AlreadyProcessed(StockAt, processed_stocks)
       THEN /\ at' = [at EXCEPT !.stock = @ + 1]
            /\ UNCHANGED <<pc, processed_stocks>>
       ELSE /\ processed_stocks' = processed_stocks \cup {StockAt}
            /\ IF periods = <<>>
               THEN at' = [at EXCEPT !.stock = @ + 1] /\ pc' = pc
               ELSE at' = [at EXCEPT !.period = 1] /\ pc' = "tick"
    /\ UNCHANGED <<sectors, local_files, calls, dateRangeVars, analyzerVars, combined_data>>

download_tick_data ==
    /\ pc = "tick"
    /\ calls' = Append(calls, <<"download_tick_data", StockAt, PeriodAt>>)
    /\ \E outcome \in Outcomes(<<"Min", StockAt, PeriodAt>>) :
          /\ local_files' = IF outcome = "downloaded"
                            THEN local_files \cup {<<"Min", StockAt, PeriodAt>>}
                            ELSE local_files
          /\ IF outcome = "raised"
             THEN at' = [at EXCEPT !.stock = @ + 1] /\ pc' = "stock"
             ELSE at' = at /\ pc' = "ta"
    /\ UNCHANGED <<sectors, processed_stocks, dateRangeVars, analyzerVars, combined_data>>

\* download_ta_data and the end of the loop body over periods
download_ta_data ==
    /\ pc = "ta"
    /\ calls' = Append(calls, <<"download_ta_data", StockAt, PeriodAt>>)
    /\ \E outcome \in Outcomes(<<"TAMin", StockAt, PeriodAt>>) :
          /\ local_files' = IF outcome = "downloaded"
                            THEN local_files \cup {<<"TAMin", StockAt, PeriodAt>>}
                            ELSE local_files
          /\ IF outcome # "raised" /\ at.period < Len(periods)
             THEN at' = [at EXCEPT !.period = @ + 1] /\ pc' = "tick"
             ELSE at' = [at EXCEPT !.stock = @ + 1] /\ pc' = "stock"
    /\ UNCHANGED <<sectors, processed_stocks, dateRangeVars, analyzerVars, combined_data>>

\* the loop over the stocks of a sector ends
next_sector ==
    /\ pc = "stock"
    /\ at.stock > Len(sectors[at.sector])
    /\ at' = [at EXCEPT !.sector = @ + 1]
    /\ pc' = "sector"
    /\ UNCHANGED <<sectors, processed_stocks, local_files, calls, dateRangeVars,
                   analyzerVars, combined_data>>

\* the loop over sectors ends: "Download phase completed!"
download_phase_completed ==
    /\ pc = "sector"
    /\ at.sector > Len(sectors)
    /\ pc' = "extract"
    /\ UNCHANGED <<mainVars, dateRangeVars, analyzerVars, combined_data>>

\* the *.zip files of the folder of a stock
ZipFiles(stock_id) ==
    { f \in local_files : f[1] \in {"Min", "TAMin"} /\ f[2] = stock_id }

\* one pass of the extraction loop over processed_stocks (a set: any order);
\* extract_zip_file may fail on a bad zip file
extract_all_zips_in_folder ==
    /\ pc = "extract"
    /\ \E stock_id \in processed_stocks \ at.extracted :
          /\ at' = [at EXCEPT !.extracted = @ \cup {stock_id}]
          /\ \E good \in SUBSET ZipFiles(stock_id) :
                local_files' = local_files \cup { <<"extracted", f>> : f \in good }
    /\ UNCHANGED <<pc, sectors, processed_stocks, calls, dateRangeVars, analyzerVars,
                   combined_data>>

\* "All processing completed successfully!"
main_return ==
    /\ pc = "extract"
    /\ at.extracted = processed_stocks
    /\ pc' = "done"
    /\ UNCHANGED <<mainVars, dateRangeVars, analyzerVars, combined_data>>

NextMain ==
    \/ generate_date_range_enter
    \/ generate_date_range_while
    \/ generate_date_range_return
    \/ main_process_sectors
    \/ read_sector_file
    \/ process_stock
    \/ download_tick_data
    \/ download_ta_data
    \/ next_sector
    \/ download_phase_completed
    \/ extract_all_zips_in_folder
    \/ main_return

DownloadSpec == InitMain /\ [][NextMain]_vars

(***************************************************************************)
(* Properties.  The helpers below restate the quantities of the            *)
(* specification directly on the frame.                                    *)
(***************************************************************************)
Rows == 1..Len(data)
Pairs == {pairs_df[n] : n \in 1..Len(pairs_df)}

\* (close - base) / base * 100 >= min_gain, for base > 0
CrossesFloor(close, base, min_gain) ==
    (close - base) * 100 * min_gain[2] >= min_gain[1] * base

\* the rows of symbol f no later than t
HistoryRows(f, t) == {i \in Rows : data[i].symbol = f /\ data[i].datetime <= t}

\* the latest of them
LatestRow(f, t) ==
    CHOOSE i \in HistoryRows(f, t) :
        \A k \in HistoryRows(f, t) : data[k].datetime <= data[i].datetime

\* the rows of symbol f in (t, t + lag]
WindowRows(f, t, lag) ==
    {i \in Rows : data[i].symbol = f /\ data[i].datetime > t
                                     /\ data[i].datetime <= t + lag}

\* C1: first passage.  The follower_time of every pair is a bar of the
\* follower in (leader_time, leader_time + max_lag_minutes] whose gain over
\* the base price is >= min_gain, and no bar of the follower strictly
\* between leader_time and follower_time has such a gain.
C1_FirstPassage ==
    pc = "analyzed" =>
        \A p \in Pairs :
            LET base == data[LatestRow(p.follower_symbol, p.leader_time)].close_price
            IN  /\ \E i \in WindowRows(p.follower_symbol, p.leader_time,
                                       args.max_lag_minutes) :
                      /\ data[i].datetime = p.follower_time
                      /\ data[i].close_price = p.follower_trigger_price
                      /\ CrossesFloor(data[i].close_price, base, args.min_gain)
                /\ \A i \in Rows :
                      ( /\ data[i].symbol = p.follower_symbol
                        /\ data[i].datetime > p.leader_time
                        /\ data[i].datetime < p.follower_time )
                      => ~CrossesFloor(data[i].close_price, base, args.min_gain)

\* a pair taken at the first crossing although a later bar of the window
\* has a larger gain
C1_Witness ==
    /\ pc = "analyzed"
    /\ \E p \in Pairs :
          \E i \in WindowRows(p.follower_symbol, p.leader_time,
                              args.max_lag_minutes) :
              /\ data[i].datetime > p.follower_time
              /\ data[i].close_price > p.follower_trigger_price

\* C2: monotonic window.  Every pair has
\* time_lag_minutes = follower_time - leader_time and
\* 0 < time_lag_minutes <= max_lag_minutes.
C2_MonotonicWindow ==
    pc = "analyzed" =>
        \A p \in Pairs :
            /\ p.time_lag_minutes = p.follower_time - p.leader_time
            /\ 0 < p.time_lag_minutes
            /\ p.time_lag_minutes <= args.max_lag_minutes

\* a pair at the very end of its window, whose follower has a later bar
\* outside the window
C2_Witness ==
    /\ pc = "analyzed"
    /\ \E p \in Pairs :
          /\ p.time_lag_minutes = args.max_lag_minutes
          /\ \E i \in Rows : /\ data[i].symbol = p.follower_symbol
                             /\ data[i].datetime > p.follower_time

\* the five conjuncts of the signal predicate, on the columns of row r
FiveConjuncts(r, a) ==
    /\ r.large_total * r.large_total_ma30[2] * a.money_multiplier[2]
           > r.large_total_ma30[1] * a.money_multiplier[1]
    /\ r.large_total > a.min_amount
    /\ r.large_net > 0
    /\ r.return_1min # NaN
    /\ r.return_1min[1] * a.min_price_change[2]
           > a.min_price_change[1] * r.return_1min[2]
    /\ (r.is_daily_high \/ r.is_30min_high)

\* C3: a bar is flagged leader_signal exactly when the five conjuncts hold,
\* and a flagged bar whose return_1min alone is lowered to min_price_change
\* is not flagged.
C3_PredicateNecessity ==
    pc \in {"identified", "analyzed"} =>
        \A i \in Rows :
            /\ data[i].leader_signal = FiveConjuncts(data[i], args)
            /\ data[i].leader_signal =>
                  ~LeaderSignal([data[i] EXCEPT !.return_1min = args.min_price_change],
                                args.money_multiplier, args.min_amount,
                                args.min_price_change)

\* a flagged bar, and an unflagged bar that fails the price-change conjunct
\* only
C3_Witness ==
    /\ pc = "identified"
    /\ \E i \in Rows : data[i].leader_signal
    /\ \E i \in Rows :
          /\ ~data[i].leader_signal
          /\ data[i].return_1min # NaN
          /\ FiveConjuncts([data[i] EXCEPT !.return_1min = <<1, 1>>], args)

\* the rows of symbol f, in frame order
RowsOf(f) == SelectSeq(data, LAMBDA r : r.symbol = f)

\* the rows of the symbol of row i no later than row i, in frame order
HistoryOf(i) ==
    SelectSeq(data, LAMBDA r : r.symbol = data[i].symbol
                               /\ r.datetime <= data[i].datetime)

\* C4: no lookahead.  Every derived value of a bar, and its two flags, are
\* the values computed from the bars of its symbol up to and including it.
C4_NoLookahead ==
    pc \in {"calculated", "identified", "analyzed"} =>
        \A i \in Rows :
            LET past == Indicators(HistoryOf(i), Len(HistoryOf(i)))
                row == past @@ data[i]
                ls == LeaderSignal(row, args.money_multiplier, args.min_amount,
                                   args.min_price_change)
            IN  /\ \A f \in DOMAIN past : data[i][f] = past[f]
                /\ pc # "calculated" =>
                      /\ data[i].leader_signal = ls
                      /\ data[i].enhanced_leader_signal =
                             EnhancedLeaderSignal(row, ls, args.money_multiplier)

\* C5: base price and gain.  The base price of every pair is the close of
\* the follower's latest bar at or before leader_time, and follower_gain_pct
\* is (trigger close - base) / base * 100 against that base, >= min_gain.
C5_BasePriceAndGain ==
    pc = "analyzed" =>
        \A p \in Pairs :
            LET base == data[LatestRow(p.follower_symbol, p.leader_time)].close_price
            IN  /\ p.follower_base_price = base
                /\ \E i \in Rows : /\ data[i].symbol = p.follower_symbol
                                   /\ data[i].datetime = p.follower_time
                                   /\ data[i].close_price = p.follower_trigger_price
                /\ p.follower_gain_pct[2] > 0
                /\ p.follower_gain_pct[1] * base
                       = (p.follower_trigger_price - base) * 100 * p.follower_gain_pct[2]
                /\ p.follower_gain_pct[1] * args.min_gain[2]
                       >= args.min_gain[1] * p.follower_gain_pct[2]

\* a pair whose base bar is earlier than the signal minute and is not the
\* follower's first bar
C5_Witness ==
    /\ pc = "analyzed"
    /\ \E p \in Pairs :
          LET b == LatestRow(p.follower_symbol, p.leader_time)
          IN  /\ data[b].datetime < p.leader_time
              /\ \E k \in HistoryRows(p.follower_symbol, p.leader_time) :
                    /\ data[k].datetime < data[b].datetime
                    /\ data[k].close_price # data[b].close_price

\* the leader signals of the frame, as (symbol, time)
Signals == {i \in Rows : data[i].leader_signal}
StockSet == {stocks[k] : k \in 1..Len(stocks)}

\* the follower f has history at or before t and a bar in the window of t
\* whose gain over the base price is >= min_gain
Responds(f, t) ==
    /\ HistoryRows(f, t) # {}
    /\ \E w \in WindowRows(f, t, args.max_lag_minutes) :
          CrossesFloor(data[w].close_price, data[LatestRow(f, t)].close_price,
                       args.min_gain)

PairsOf(i, f) ==
    {n \in 1..Len(pairs_df) : /\ pairs_df[n].leader_symbol = data[i].symbol
                              /\ pairs_df[n].leader_time = data[i].datetime
                              /\ pairs_df[n].follower_symbol = f}

\* C6: emission condition.  For a leader signal and a follower other than
\* the leader a pair is emitted if and only if the follower responds; every
\* pair comes from a leader signal; the call always returns.
C6_EmissionCondition ==
    pc = "analyzed" =>
        /\ \A i \in Signals : \A f \in StockSet \ {data[i].symbol} :
              (PairsOf(i, f) # {}) <=> Responds(f, data[i].datetime)
        /\ \A n \in 1..Len(pairs_df) : \E i \in Signals :
              n \in PairsOf(i, pairs_df[n].follower_symbol)

\* one signal with a pair, another signal whose follower has bars in the
\* window but none crossing the floor, or no history: no pair for it
C6_Witness ==
    /\ pc = "analyzed"
    /\ \E i \in Signals : \E f \in StockSet \ {data[i].symbol} :
          /\ PairsOf(i, f) = {}
          /\ WindowRows(f, data[i].datetime, args.max_lag_minutes) # {}
    /\ \E i \in Signals : \E f \in StockSet : PairsOf(i, f) # {}

\* C7: enhanced subset.  enhanced_leader_signal implies leader_signal.
C7_EnhancedSubset ==
    pc \in {"identified", "analyzed"} =>
        \A i \in Rows : data[i].enhanced_leader_signal => data[i].leader_signal

\* an enhanced bar, and a leader signal that is not enhanced
C7_Witness ==
    /\ pc = "identified"
    /\ \E i \in Rows : data[i].enhanced_leader_signal
    /\ \E i \in Rows : data[i].leader_signal /\ ~data[i].enhanced_leader_signal

\* large_total > large_total_ma30 * m, for a fraction m
Above(r, m) == r.large_total * r.large_total_ma30[2] * m[2] > r.large_total_ma30[1] * m[1]

Flagged == \A i \in Rows : "enhanced_leader_signal" \in DOMAIN data[i]

C9_NoCrossSymbol ==
    /\ pc = "calculated" =>
          \A f \in StockSet : WithIndicators(RowsOf(f), <<f>>) = RowsOf(f)
    /\ pc \in {"identified", "analyzed"} =>
          \A f \in StockSet :
              WithSignals(WithIndicators(RowsOf(f), <<f>>), args.money_multiplier,
                          args.min_amount, args.min_price_change) = RowsOf(f)

\* two symbols with different flows in the same minute, one of them flagged
C9_Witness ==
    /\ pc = "identified"
    /\ \E i, k \in Rows :
          /\ data[i].symbol # data[k].symbol
          /\ data[i].datetime = data[k].datetime
          /\ data[i].large_total # data[k].large_total
          /\ data[i].leader_signal
          /\ ~data[k].leader_signal

\* C11: parameter misconfiguration is rejected before any scan.  After a
\* call of identify_leader_signals with money_multiplier <= 1 the call has
\* ended in an error and no bar carries a flag; after a call of
\* analyze_leader_follower_relationships with max_lag_minutes <= 0 the call
\* has ended in an error and no pair was computed.
C11_MisconfigurationRejected ==
    /\ ( /\ "money_multiplier" \in DOMAIN args
         /\ args.money_multiplier[1] <= args.money_multiplier[2] ) =>
           /\ pc = "ValueError"
           /\ \A i \in Rows : "leader_signal" \notin DOMAIN data[i]
    /\ ( /\ "max_lag_minutes" \in DOMAIN args
         /\ args.max_lag_minutes <= 0 ) =>
           /\ pc = "ValueError"
           /\ pairs_df = <<>>

\* the file lacks a required field, or a symbol's timestamps are out of
\* order or repeated
MissingField(csv) ==
    \E i \in 1..Len(csv) : \E col \in RequiredColumns : col \notin DOMAIN csv[i]

Unsorted(csv) ==
    \E i, k \in 1..Len(csv) :
        i < k /\ csv[i].symbol = csv[k].symbol /\ csv[i].datetime > csv[k].datetime

Duplicated(csv) ==
    \E i, k \in 1..Len(csv) :
        i < k /\ csv[i].symbol = csv[k].symbol /\ csv[i].datetime = csv[k].datetime

\* C12: precondition violations fail fast.  An analyzer built on a file
\* that lacks a required bar field, or in which a symbol's timestamps are
\* unsorted or duplicated, never gets past load_data: the call ends in an
\* error and neither derived series, signals nor pairs are computed.
C12_FailFast ==
    (MissingField(csv_file) \/ Unsorted(csv_file) \/ Duplicated(csv_file)) =>
        /\ pc \in {"new", "ValueError"}
        /\ data = <<>>
        /\ pairs_df = <<>>

\* C13: calculate_success_rates on an empty pair collection returns a
\* summary whose total pair count is zero and whose leader, follower and
\* pair rankings are present and empty.
C13_EmptySummary ==
    (pc = "aggregated" /\ pairs_df = <<>>) =>
        /\ {"total_pairs", "leader_ranking", "follower_ranking", "best_pairs"}
               \subseteq DOMAIN stats
        /\ stats.total_pairs = 0
        /\ stats.leader_ranking = <<>>
        /\ stats.follower_ranking = <<>>
        /\ stats.best_pairs = <<>>

\* C14: empty results are not errors in run_complete_analysis.  A run that
\* loaded its data and found no leader signal, or signals but no pair, hands
\* the caller a result that is not the None of a run whose data could not be
\* loaded: it carries an empty pair collection and a summary with a total
\* pair count of zero.
C14_NoRelationshipsResult ==
    (pc = "done" /\ "leader_signals" \in DOMAIN results /\ pairs_df = <<>>) =>
        /\ "is_None" \notin DOMAIN ret
        /\ {"pairs_df", "statistics"} \subseteq DOMAIN ret
        /\ ret.pairs_df = <<>>
        /\ "total_pairs" \in DOMAIN ret.statistics
        /\ ret.statistics.total_pairs = 0

\* row a of a ranking stands rightly before row b: a larger count, or the
\* same count and a smaller key
KeyBefore(a, b) ==
    IF "leader_symbol" \in DOMAIN a /\ "follower_symbol" \in DOMAIN a
    THEN \/ a.leader_symbol < b.leader_symbol
         \/ (a.leader_symbol = b.leader_symbol /\ a.follower_symbol < b.follower_symbol)
    ELSE IF "leader_symbol" \in DOMAIN a THEN a.leader_symbol < b.leader_symbol
    ELSE a.follower_symbol < b.follower_symbol

Ranked(r) ==
    \A i, k \in 1..Len(r) :
        i < k => \/ r[i].count > r[k].count
                 \/ (r[i].count = r[k].count /\ KeyBefore(r[i], r[k]))

\* C15: the leader, follower and pair rankings of calculate_success_rates
\* are in descending order of count, and rows of equal count are in
\* ascending order of their key.
C15_RankingOrder ==
    (pc = "aggregated" /\ pairs_df # <<>>) =>
        /\ Ranked(stats.leader_ranking)
        /\ Ranked(stats.follower_ranking)
        /\ Ranked(stats.best_pairs)

\* the signal times of the leader f among the pairs
SignalTimesOf(f) == { p.leader_time : p \in { q \in Pairs : q.leader_symbol = f } }

\* large_total of the bar of symbol f at time t
LargeTotalAt(f, t) ==
    LET i == CHOOSE k \in Rows : data[k].symbol = f /\ data[k].datetime = t
    IN  data[i].large_total

\* the sum of large_total over the signals of f at the times T, each once
RECURSIVE SignalTotal(_, _)
SignalTotal(f, T) ==
    IF T = {} THEN 0
    ELSE LET t == CHOOSE x \in T : TRUE
         IN  LargeTotalAt(f, t) + SignalTotal(f, T \ {t})

\* C16: in the per-leader summary the count of a leader is the number of
\* pairs it leads, and its mean large_total is the mean of large_total over
\* its signals, each signal counted once however many followers it matched.
C16_PerLeaderSummary ==
    (pc = "aggregated" /\ pairs_df # <<>>) =>
        \A n \in 1..Len(stats.leader_ranking) :
            LET row == stats.leader_ranking[n]
                f == row.leader_symbol
            IN  /\ row.count = Cardinality({k \in 1..Len(pairs_df) :
                                               pairs_df[k].leader_symbol = f})
                /\ row.leader_large_total =
                       Round2(<<SignalTotal(f, SignalTimesOf(f)),
                                Cardinality(SignalTimesOf(f))>>)

\* what each stage leaves behind
HasIndicators == \A i \in Rows : "large_total_ma30" \in DOMAIN data[i]
HasFlags == \A i \in Rows : "leader_signal" \in DOMAIN data[i]
NoFlags == \A i \in Rows : "leader_signal" \notin DOMAIN data[i]

\* the flags are those of the arguments of this run
FlagsOfThisRun ==
    /\ args.money_multiplier = DefaultSignalArgsOf(engine).money_multiplier
    /\ \A i \in Rows : data[i].leader_signal = FiveConjuncts(data[i], args)

\* the pairs are those of the flagged bars of the frame, and of all of them
PairsOfTheFlags ==
    /\ \A i \in Signals : \A f \in StockSet \ {data[i].symbol} :
          (PairsOf(i, f) # {}) <=> Responds(f, data[i].datetime)
    /\ \A n \in 1..Len(pairs_df) : \E i \in Signals :
          n \in PairsOf(i, pairs_df[n].follower_symbol)

\* the summary is the summary of pairs_df
StatsOfThePairs ==
    /\ "total_pairs" \in DOMAIN stats
    /\ stats.total_pairs = Len(pairs_df)
    /\ { stats.leader_ranking[n].leader_symbol : n \in 1..Len(stats.leader_ranking) }
           = { p.leader_symbol : p \in Pairs }
    /\ \A n \in 1..Len(stats.leader_ranking) :
          stats.leader_ranking[n].count =
              Cardinality({k \in 1..Len(pairs_df) :
                  pairs_df[k].leader_symbol = stats.leader_ranking[n].leader_symbol})

\* C17: stage ordering in run_complete_analysis.  The stages run in the
\* order load, derived series, signals, matching, aggregation; at every
\* position of the run the work of the stages before it is complete and no
\* later stage has left anything; the pairs come from the flags of this
\* run, and the summary is computed from the pairs of this run.
C17_StageOrder ==
    /\ pc = "new" => data = <<>>
    /\ pc = "loaded" => data # <<>> /\ ~HasIndicators /\ NoFlags
    /\ pc = "calculated" => HasIndicators /\ NoFlags
    /\ pc \in {"new", "loaded", "calculated"} =>
          DOMAIN results = {} /\ DOMAIN args = {}
    /\ pc = "identified" =>
          HasIndicators /\ HasFlags /\ FlagsOfThisRun /\ Signals # {}
    /\ pc \in {"new", "loaded", "calculated", "identified"} =>
          pairs_df = <<>> /\ DOMAIN stats = {}
    /\ pc = "analyzed" =>
          /\ HasFlags /\ FlagsOfThisRun
          /\ pairs_df # <<>> /\ PairsOfTheFlags
          /\ DOMAIN stats = {}
    /\ pc = "aggregated" =>
          /\ FlagsOfThisRun
          /\ pairs_df # <<>> /\ PairsOfTheFlags
          /\ StatsOfThePairs
    /\ pc \in {"new", "loaded", "calculated", "identified", "analyzed", "aggregated"} =>
          DOMAIN report = {} /\ saved = <<>> /\ DOMAIN ret = {}
    /\ pc \in {"reported", "charted", "saved"} =>
          /\ PairsOfTheFlags /\ StatsOfThePairs
          /\ report.total_pairs = Len(pairs_df)
          /\ DOMAIN ret = {}
    /\ (pc = "done" /\ "statistics" \in DOMAIN ret) =>
          /\ PairsOfTheFlags /\ StatsOfThePairs
          /\ ret.statistics = stats
          /\ Len(ret.pairs_df) = stats.total_pairs

\* a finished run with a pair, whose frame also has a bar with a buying
\* burst that is not a leader signal
C17_Witness ==
    /\ pc = "done"
    /\ "statistics" \in DOMAIN ret
    /\ ret.statistics.total_pairs >= 1
    /\ \E i \in Rows : data[i].large_total > args.min_amount /\ ~data[i].leader_signal

\* the pairs the matcher emitted in this run
Emitted == LeaderFollowerPairs(data, stocks, args.max_lag_minutes, args.min_gain)

\* C18: the pair collection is immutable once the matcher has returned it.
\* Through aggregation, report, charts and saving, the caller's pairs_df is
\* the frame the matcher emitted, with the same pairs and the same fields,
\* and so are the pairs saved and the pairs returned at the end.
C18_PairsImmutable ==
    /\ pc \in {"analyzed", "aggregated", "reported", "charted", "saved"} =>
          pairs_df = Emitted
    /\ pc = "saved" => saved = Emitted
    /\ (pc = "done" /\ "pairs_df" \in DOMAIN ret) =>
          /\ saved = Emitted
          /\ ret.pairs_df = Emitted

\* C19: no pair has leader_symbol equal to follower_symbol.
C19_NoSelfPair ==
    pc = "analyzed" => \A p \in Pairs : p.leader_symbol # p.follower_symbol

\* a leader signal followed by another symbol, whose own later bar also
\* crosses the floor over its close at the signal
C19_Witness ==
    /\ pc = "analyzed"
    /\ \E i \in Signals :
          /\ Responds(data[i].symbol, data[i].datetime)
          /\ PairsOf(i, data[i].symbol) = {}
          /\ \E f \in StockSet : PairsOf(i, f) # {}

\* the frame in which the bars of S, and no others, are leader signals
OnlyFlags(S) == [i \in 1..Len(data) |-> [data[i] EXCEPT !.leader_signal = (i \in S)]]

\* the pairs of matching the signals S alone
MatchOf(S) ==
    LeaderFollowerPairs(OnlyFlags(S), stocks, args.max_lag_minutes, args.min_gain)

SetOf(q) == { q[n] : n \in 1..Len(q) }

\* the earliest signal row, as a set (empty when there is no signal)
FirstSignal == { i \in Signals : \A k \in Signals : i <= k }

\* C20: matching is independent per signal.  For every split of the
\* signals into two parts (the part S1 being the one that holds the first
\* signal) the pairs of the whole list are exactly the pairs of matching S1
\* alone plus the pairs of matching S2 alone, and the pairs of one signal
\* are those of matching that signal alone.
C20_IndependentPerSignal ==
    pc = "analyzed" =>
        /\ \A S2 \in SUBSET (Signals \ FirstSignal) :
              LET m1 == MatchOf(Signals \ S2)
                  m2 == MatchOf(S2)
              IN  /\ SetOf(m1) \cup SetOf(m2) = Pairs
                  /\ Len(m1) + Len(m2) = Len(pairs_df)
        /\ \A i \in Signals :
              SetOf(MatchOf({i})) =
                  { p \in Pairs : /\ p.leader_symbol = data[i].symbol
                                  /\ p.leader_time = data[i].datetime }

\* one bar of a follower is the follower_time of the pairs of two signals,
\* with different base prices
C20_Witness ==
    /\ pc = "analyzed"
    /\ \E p, q \in Pairs :
          /\ p.follower_symbol = q.follower_symbol
          /\ p.follower_time = q.follower_time
          /\ p.leader_time # q.leader_time
          /\ p.follower_base_price # q.follower_base_price

\* the row is the first bar of its symbol
FirstBar(i) == \A k \in Rows : k < i => data[k].symbol # data[i].symbol

\* C21: the first bar of each symbol is never flagged as a leader signal,
\* whatever min_price_change is (zero and negative values included).
C21_FirstBarNeverFlagged ==
    pc = "identified" =>
        \A i \in Rows : FirstBar(i) => ~data[i].leader_signal

\* a negative min_price_change, and a first bar that meets the four other
\* conditions of the signal
C21_Witness ==
    /\ pc = "identified"
    /\ args.min_price_change[1] < 0
    /\ \E i \in Rows :
          /\ FirstBar(i)
          /\ Above(data[i], args.money_multiplier)
          /\ data[i].large_total > args.min_amount
          /\ data[i].large_net > 0
          /\ data[i].is_30min_high

\* the rows of the symbol of row i up to row i, and the last Window of them
UpTo(i) == { k \in Rows : k <= i /\ data[k].symbol = data[i].symbol }
Recent(i) == { k \in UpTo(i) : Cardinality({ q \in UpTo(i) : q >= k }) <= Window }

RECURSIVE LargeTotalOver(_)
LargeTotalOver(S) ==
    IF S = {} THEN 0
    ELSE LET k == CHOOSE x \in S : TRUE
         IN  data[k].large_total + LargeTotalOver(S \ {k})

\* C22: large_total_ma30 of the k-th bar of a symbol is the sum of
\* large_total over the last min(k, 30) bars of the symbol, the bar itself
\* included, divided by min(k, 30).
C22_MovingAverage ==
    pc \in {"calculated", "identified"} =>
        \A i \in Rows :
            LET k == Cardinality(UpTo(i))
            IN  /\ Cardinality(Recent(i)) = IF k < 30 THEN k ELSE 30
                /\ data[i].large_total_ma30 =
                       <<LargeTotalOver(Recent(i)), IF k < 30 THEN k ELSE 30>>

\* a bar beyond the 30th whose window has dropped a burst, and a bar before
\* the 30th
C22_Witness ==
    /\ pc = "calculated"
    /\ \E i \in Rows : /\ Cardinality(UpTo(i)) > 30
                       /\ LargeTotalOver(UpTo(i)) > LargeTotalOver(Recent(i))
    /\ \E i \in Rows : /\ Cardinality(UpTo(i)) \in 2..29
                       /\ data[i].large_total_ma30[2] = Cardinality(UpTo(i))

\* the same fraction
SameFraction(a, b) == a[1] * b[2] = b[1] * a[2]

\* the bars a pair may have been taken from
LeaderBars(p) ==
    { i \in Rows : /\ data[i].symbol = p.leader_symbol
                   /\ data[i].datetime = p.leader_time }

\* C23: every pair carries an unmodified snapshot of its leader signal's
\* minute: leader_close, leader_large_total, leader_large_net,
\* leader_return_1min and is_enhanced_signal are the close_price,
\* large_total, large_net, return_1min and enhanced flag of the flagged bar
\* of the leader at leader_time.
C23_LeaderSnapshot ==
    pc = "analyzed" =>
        \A p \in Pairs :
            \E i \in LeaderBars(p) :
                /\ data[i].leader_signal
                /\ p.leader_close = data[i].close_price
                /\ p.leader_large_total = data[i].large_total
                /\ p.leader_large_net = data[i].large_net
                /\ SameFraction(p.leader_return_1min, data[i].return_1min)
                /\ p.is_enhanced_signal = data[i].enhanced_leader_signal

\* the columns of the frame load_data leaves
LoadedColumns ==
    {"symbol", "datetime", "close_price", "volume", "large_buy", "xlarge_buy",
     "large_sell", "xlarge_sell", "large_net", "large_total"}

\* the bars of a frame: its rows, in order, restricted to the loaded columns
Bars(d) == [i \in 1..Len(d) |-> [c \in LoadedColumns |-> d[i][c]]]

\* a step of one of the three methods keeps the bars and removes no column
BarsKept ==
    pc \in {"loaded", "calculated", "identified"} =>
        /\ Bars(data') = Bars(data)
        /\ \A i \in 1..Len(data) : DOMAIN data[i] \subseteq DOMAIN data'[i]

\* C24: calculate_price_movements, identify_leader_signals and
\* analyze_leader_follower_relationships treat the bars as read-only: a step
\* of one of them changes no loaded field of any bar, nor the number or the
\* order of the bars, and removes no column; it only adds derived columns.
C24_BarsReadOnly == [][BarsKept]_vars

\* the three methods have run on bars of two symbols and have added their
\* columns and found a pair
C24_Witness ==
    /\ pc = "analyzed"
    /\ pairs_df # <<>>
    /\ \E i, k \in Rows : data[i].symbol # data[k].symbol
    /\ \A i \in Rows : /\ LoadedColumns \subseteq DOMAIN data[i]
                       /\ "large_total_ma30" \in DOMAIN data[i]
                       /\ "enhanced_leader_signal" \in DOMAIN data[i]

\* results['leader_follower_pairs'], empty when the key is not set
ResultPairs ==
    IF "leader_follower_pairs" \in DOMAIN results
    THEN results.leader_follower_pairs ELSE <<>>

\* results['statistics'] is what the last calculate_success_rates returned:
\* both empty, or both the same summary
StatisticsOfLastCall ==
    IF DOMAIN stats = {}
    THEN "statistics" \notin DOMAIN results
    ELSE "statistics" \in DOMAIN results /\ results.statistics = stats

\* C25: after any sequence of calls of analyze_leader_follower_relationships
\* and calculate_success_rates, results['leader_follower_pairs'] holds the
\* pairs of the most recent analyze call and results['statistics'] the
\* summary of the most recent calculate call, also when that call found no
\* pairs.
C25_NoStaleResults ==
    /\ pc \in {"analyzed", "aggregated"} => ResultPairs = pairs_df
    /\ pc = "aggregated" => StatisticsOfLastCall

\* the positions of the pairs of signal row i with follower f
PairsAt(i, f) ==
    { n \in 1..Len(pairs_df) : /\ pairs_df[n].leader_symbol = data[i].symbol
                               /\ pairs_df[n].leader_time = data[i].datetime
                               /\ pairs_df[n].follower_symbol = f }

\* the signal rows on the bar of signal row i (one, unless the file repeats
\* the bar)
SameBar(i) ==
    { k \in Signals : /\ data[k].symbol = data[i].symbol
                      /\ data[k].datetime = data[i].datetime }

RECURSIVE CountSum(_)
CountSum(ranking) ==
    IF ranking = <<>> THEN 0 ELSE ranking[1].count + CountSum(Tail(ranking))

\* C26: at most one pair per (leader signal, follower symbol), so that the
\* number of pairs never exceeds signals x (symbols - 1); total_pairs is the
\* number of pairs emitted and the sum of the counts of each ranking table.
C26_PairCounts ==
    /\ pc \in {"analyzed", "aggregated"} =>
          /\ \A i \in Signals : \A f \in StockSet :
                Cardinality(PairsAt(i, f)) <= Cardinality(SameBar(i))
          /\ Len(pairs_df) <= Cardinality(Signals) * (Len(stocks) - 1)
    /\ (pc = "aggregated" /\ "total_pairs" \in DOMAIN stats) =>
          /\ stats.total_pairs = Len(pairs_df)
          /\ CountSum(stats.leader_ranking) = stats.total_pairs
          /\ CountSum(stats.follower_ranking) = stats.total_pairs
          /\ CountSum(stats.best_pairs) = stats.total_pairs

\* a summary of three pairs or more with two leaders and two followers, one
\* signal having been followed by every other symbol
C26_Witness ==
    /\ pc = "aggregated"
    /\ "total_pairs" \in DOMAIN stats
    /\ stats.total_pairs >= 3
    /\ Len(stats.leader_ranking) >= 2
    /\ Len(stats.follower_ranking) >= 2
    /\ \E i \in Signals :
          Cardinality({ n \in 1..Len(pairs_df) :
                          /\ pairs_df[n].leader_symbol = data[i].symbol
                          /\ pairs_df[n].leader_time = data[i].datetime })
              = Len(stocks) - 1

\* what the methods of the other class give on the bars of the file with
\* the arguments of the analyzer: the frame after calculate_price_movements,
\* the frame after identify_leader_signals, the pairs
OtherCalculated ==
    IF engine = "csv" THEN WithIndicators(LoadedFrame(csv_file), stocks)
    ELSE CsvPriceMovements(LoadedFrame(csv_file), stocks, 1)

OtherIdentified ==
    IF engine = "csv"
    THEN WithSignals(OtherCalculated, args.money_multiplier, args.min_amount,
                     args.min_price_change)
    ELSE CsvLeaderSignals(OtherCalculated, args.money_multiplier, args.min_amount,
                          args.min_price_change)

OtherPairs ==
    IF engine = "csv"
    THEN LeaderFollowerPairs(OtherIdentified, stocks, args.max_lag_minutes, args.min_gain)
    ELSE CsvLeaderFollowerPairs(OtherIdentified, stocks, args.max_lag_minutes,
                                args.min_gain)

\* C27: on the same bars and with the same explicitly supplied parameters
\* the two classes give the same indicator columns, the same leader_signal
\* and enhanced_leader_signal flags and the same pair list.
C27_EnginesEquivalent ==
    /\ pc = "calculated" => data = OtherCalculated
    /\ pc \in {"identified", "analyzed"} => data = OtherIdentified
    /\ pc = "analyzed" => pairs_df = OtherPairs

\* the csv class has flagged bars, one of them enhanced, and matched pairs
\* with the arguments that are the defaults of the other class
C27_Witness ==
    /\ pc = "analyzed"
    /\ engine = "csv"
    /\ args.money_multiplier = DefaultSignalArgsOf("sector").money_multiplier
    /\ pairs_df # <<>>
    /\ \E i \in Rows : data[i].enhanced_leader_signal
    /\ \E i \in Rows : data[i].leader_signal /\ ~data[i].enhanced_leader_signal

\* the entries analyze_leader_follower stored
StoredCorrelations ==
    { <<l, f>> \in SectorStockSet(SectorSymbols) \X SectorStockSet(SectorSymbols) :
        pc = "correlated" /\ f \in DOMAIN results.correlations[l] }

\* the responses behind the entry of leader l and follower f
BuyResponsesOf(l, f) ==
    BuyResponses(SymbolData(combined_data, f),
                 SignalTimes(SymbolData(combined_data, l), "strong_buy_signal"),
                 args.max_lag_minutes)

SellResponsesOf(l, f) ==
    SellResponses(SymbolData(combined_data, f),
                  SignalTimes(SymbolData(combined_data, l), "strong_sell_signal"),
                  args.max_lag_minutes)

BuySignalCount(l) ==
    Cardinality({ i \in 1..Len(combined_data) :
                    combined_data[i].symbol = l /\ combined_data[i].strong_buy_signal })

SellSignalCount(l) ==
    Cardinality({ i \in 1..Len(combined_data) :
                    combined_data[i].symbol = l /\ combined_data[i].strong_sell_signal })

UnitRate(rate) == rate[2] > 0 /\ 0 <= rate[1] /\ rate[1] <= rate[2]

LagInRange(lag) == 0 < lag /\ lag <= args.max_lag_minutes

\* C28: in every entry analyze_leader_follower stores, the number of buy
\* (sell) responses is at most the number of the leader's buy (sell)
\* signals, both success rates lie in [0, 1], and every lag recorded for
\* the entry is greater than 0 and at most max_lag_minutes.
C28_ResponsesBounded ==
    \A p \in StoredCorrelations :
        LET e == results.correlations[p[1]][p[2]]
            buy == BuyResponsesOf(p[1], p[2])
            sell == SellResponsesOf(p[1], p[2])
        IN  /\ e.buy_responses <= BuySignalCount(p[1])
            /\ e.sell_responses <= SellSignalCount(p[1])
            /\ e.buy_responses = Len(buy)
            /\ e.sell_responses = Len(sell)
            /\ UnitRate(e.buy_success_rate)
            /\ UnitRate(e.sell_success_rate)
            /\ \A n \in 1..Len(buy) : LagInRange(buy[n].lag)
            /\ \A n \in 1..Len(sell) : LagInRange(sell[n].lag)
            /\ e.buy_responses > 0 =>
                   /\ e.avg_buy_lag[1] > 0
                   /\ e.avg_buy_lag[1] <= args.max_lag_minutes * e.avg_buy_lag[2]
            /\ e.sell_responses > 0 =>
                   /\ e.avg_sell_lag[1] > 0
                   /\ e.avg_sell_lag[1] <= args.max_lag_minutes * e.avg_sell_lag[2]

\* a leader with two buy signals of which the follower answered one, and a
\* sell signal the follower did not answer
C28_Witness ==
    \E p \in StoredCorrelations :
        LET e == results.correlations[p[1]][p[2]]
        IN  /\ BuySignalCount(p[1]) = 2
            /\ e.buy_responses = 1
            /\ e.buy_success_rate = <<1, 2>>
            /\ SellSignalCount(p[1]) = 1
            /\ e.sell_responses = 0

\* the number of the calendar month of a period, counted from year 0
MonthNumber(period) == YearOf(period) * 12 + MonthOf(period) - 1

\* the period of a month number
PeriodOfMonth(n) == (n \div 12) * 100 + (n % 12) + 1

\* every calendar month from start to end inclusive, ascending, each once;
\* none when start is after end
CalendarMonths(start, end) ==
    [n \in 1..(MonthNumber(end) - MonthNumber(start) + 1) |->
        PeriodOfMonth(MonthNumber(start) + n - 1)]

\* C30: generate_date_range terminates for every start and end period with
\* months in 1..12, and what it returns is the list of the calendar months
\* from start to end inclusive, each once, in ascending order (month 12 is
\* followed by month 1 of the next year); the list is empty when start is
\* after end.
C30_DateRangeTerminates ==
    /\ [](pc = "returned" => periods = CalendarMonths(start_period, end_period))
    /\ [](pc = "while" => current_month \in 1..12)
    /\ <>(pc = "returned")

\* a call that returned a range crossing the end of a year
C30_Witness ==
    /\ pc = "returned"
    /\ YearOf(start_period) < YearOf(end_period)
    /\ MonthOf(start_period) > MonthOf(end_period)
    /\ Len(periods) > 1
    /\ \E n \in 1..(Len(periods) - 1) :
          MonthOf(periods[n]) = 12 /\ MonthOf(periods[n + 1]) = 1

\* the number of invocations of a download function for a stock and a period
CallCount(call) == Cardinality({ n \in 1..Len(calls) : calls[n] = call })

\* every stock of every sector of --sector
RequestedStocks ==
    UNION { { sectors[i][j] : j \in 1..Len(sectors[i]) } : i \in 1..Len(sectors) }

\* the extraction phase has started
ExtractionStarted ==
    \/ pc \in {"extract", "done"}
    \/ \E f \in local_files : f[1] = "extracted"

\* C29: in one run of main, no download function is invoked twice for the
\* same stock and period, whatever the sectors list and whatever the
\* downloads returned; and once the extraction phase has started, the loop
\* over the sectors is over: every sector was visited, every requested
\* stock is in processed_stocks.
C29_EachStockOnce ==
    /\ \A n \in 1..Len(calls) : CallCount(calls[n]) = 1
    /\ ExtractionStarted =>
          /\ at.sector = Len(sectors) + 1
          /\ RequestedStocks \subseteq processed_stocks

\* an extraction in a run where a stock was listed in two sectors, its first
\* download found no local file and did not deliver one, and main went on
C29_Witness ==
    /\ pc = "extract"
    /\ at.extracted # {}
    /\ Len(sectors) = 2
    /\ \E s \in RequestedStocks :
          /\ \E j \in 1..Len(sectors[1]) : sectors[1][j] = s
          /\ \E j \in 1..Len(sectors[2]) : sectors[2][j] = s
          /\ CallCount(<<"download_tick_data", s, MainStart>>) = 1
          /\ <<"Min", s, MainStart>> \notin local_files

====
